---------------------------- MODULE Spec2Model ----------------------------
(***************************************************************************)
(* A model of the command/annotation core of the action-bundle manager:   *)
(*   app/services.py   normalize_commands, sync_memos, id allocators       *)
(*   app/main.py       create_bundle, update_bundle, update_memos,         *)
(*                     delete_bundle, create_links, delete_link on the     *)
(*                     in-memory dataset state and its files;              *)
(*                     update_procedure, add_procedure on the table file   *)
(*   app/database.py   save_memos, load_memos                              *)
(*   app/link_tree.py  parse_tree_file, build_keyword_tree,                *)
(*                     get_all_keywords, the tag and title filters,        *)
(*                     load_tagged_database, save_tagged_database,         *)
(*                     tree_node_to_dict                                   *)
(*                                                                         *)
(* Strings are sequences of one-character strings, so that trimming,       *)
(* splitting and line-ending handling are computed, not assumed.           *)
(*                                                                         *)
(* Annotation records carry the six fields sync_memos constructs them     *)
(* with (services.py:37-44).  The CommandMemo dataclass in app/models.py  *)
(* declares only five of them (no description) and declares neither        *)
(* LinkEntry nor DatasetState, which services.py and main.py import from  *)
(* it; the record shape used here is the one the callers require.         *)
(***************************************************************************)
EXTENDS Integers, Sequences, FiniteSets, TLC

(***************************************************************************)
(* Characters                                                              *)
(***************************************************************************)
SP == " "
TAB == "TAB"
LF == "LF"
CR == "CR"

\* str.strip/lstrip/rstrip with no argument remove these
Whitespace == {SP, TAB, LF, CR}

IsSpace(c) == c \in Whitespace

(***************************************************************************)
(* Bounds                                                                  *)
(***************************************************************************)
\* longest raw command text explored character by character
MaxTextLen == 5
\* most command lines in a submitted command text
MaxCmds == 3

(***************************************************************************)
(* Python string primitives                                                *)
(***************************************************************************)
RECURSIVE lstrip(_)
lstrip(s) ==
    IF s = <<>> THEN s
    ELSE IF IsSpace(Head(s)) THEN lstrip(Tail(s)) ELSE s

RECURSIVE rstrip(_)
rstrip(s) ==
    IF s = <<>> THEN s
    ELSE IF IsSpace(s[Len(s)]) THEN rstrip(SubSeq(s, 1, Len(s) - 1)) ELSE s

strip(s) == rstrip(lstrip(s))

\* s.replace(c, "")
RemoveChar(s, c) == SelectSeq(s, LAMBDA ch : ch # c)

\* s.split(sep): always at least one piece; "" splits to [""]
RECURSIVE split(_, _)
split(s, sep) ==
    LET hits == {i \in 1..Len(s) : s[i] = sep}
    IN  IF hits = {} THEN <<s>>
        ELSE LET i == CHOOSE k \in hits : \A j \in hits : k <= j
             IN  <<SubSeq(s, 1, i - 1)>> \o split(SubSeq(s, i + 1, Len(s)), sep)

\* sep.join(parts)
RECURSIVE join(_, _)
join(parts, sep) ==
    IF parts = <<>> THEN <<>>
    ELSE IF Len(parts) = 1 THEN parts[1]
    ELSE parts[1] \o sep \o join(Tail(parts), sep)

(***************************************************************************)
(* Optional text: a form field is a string, a missing value is None        *)
(***************************************************************************)
Str(s) == [none |-> FALSE, s |-> s]
NoneText == [none |-> TRUE, s |-> <<>>]

\* Python truthiness of an optional string
Truthy(v) == ~v.none /\ v.s # <<>>

(***************************************************************************)
(* services.normalize_commands                                             *)
(***************************************************************************)
\* a variant that trims only the left end of each line
normalize_commands_lstrip_only(command_text) ==
    IF ~Truthy(command_text) THEN <<>>
    ELSE LET pieces == split(RemoveChar(command_text.s, CR), LF)
             raw_lines == [i \in 1..Len(pieces) |-> lstrip(pieces[i])]
         IN  SelectSeq(raw_lines, LAMBDA line : line # <<>>)

normalize_commands(command_text) ==
    IF ~Truthy(command_text) THEN <<>>
    ELSE LET pieces == split(RemoveChar(command_text.s, CR), LF)
             raw_lines == [i \in 1..Len(pieces) |-> strip(pieces[i])]
         IN  SelectSeq(raw_lines, LAMBDA line : line # <<>>)

(***************************************************************************)
(* Annotation records (CommandMemo as sync_memos constructs it)            *)
(***************************************************************************)
CommandMemo(action_id, command_order, command_text, description, memo_text, onenote_link) ==
    [action_id |-> action_id, command_order |-> command_order,
     command_text |-> command_text, description |-> description,
     memo_text |-> memo_text, onenote_link |-> onenote_link]

\* the payload sync_memos carries over: (description, memo_text, onenote_link)
NotesOf(memo) == <<memo.description, memo.memo_text, memo.onenote_link>>

EmptyNotes == <<"", "", "">>

\* sorted(memos, key=command_order): stable insertion sort
RECURSIVE InsertByOrder(_, _)
InsertByOrder(sorted, memo) ==
    IF sorted = <<>> THEN <<memo>>
    ELSE IF sorted[Len(sorted)].command_order <= memo.command_order
         THEN Append(sorted, memo)
         ELSE Append(InsertByOrder(SubSeq(sorted, 1, Len(sorted) - 1), memo),
                     sorted[Len(sorted)])

RECURSIVE SortedByOrder(_)
SortedByOrder(memos) ==
    IF memos = <<>> THEN <<>>
    ELSE InsertByOrder(SortedByOrder(SubSeq(memos, 1, Len(memos) - 1)),
                       memos[Len(memos)])

\* memo_data.get((idx, command), ("", "", "")) for the dict built by the
\* comprehension over `existing`: a later record with the same key overwrites
\* an earlier one
MemoDataGet(existing, idx, command) ==
    LET hits == {i \in 1..Len(existing) :
                    /\ existing[i].command_order = idx
                    /\ existing[i].command_text = command}
    IN  IF hits = {} THEN EmptyNotes
        ELSE NotesOf(existing[CHOOSE k \in hits : \A j \in hits : j <= k])

(***************************************************************************)
(* services.sync_memos: the new value of bundle.memos                      *)
(***************************************************************************)
\* a variant that looks notes up by command text alone
sync_memos_by_text(bundle_id, memos, command_text) ==
    LET commands == normalize_commands(Str(command_text))
        existing == SortedByOrder(memos)
        lookup(command) ==
            LET hits == {i \in 1..Len(existing) : existing[i].command_text = command}
            IN  IF hits = {} THEN EmptyNotes
                ELSE NotesOf(existing[CHOOSE k \in hits : \A j \in hits : j <= k])
    IN  [idx \in 1..Len(commands) |->
            LET notes == lookup(commands[idx])
            IN  CommandMemo(bundle_id, idx, commands[idx], notes[1], notes[2], notes[3])]

\* a variant that looks notes up by position alone
sync_memos_by_position(bundle_id, memos, command_text) ==
    LET commands == normalize_commands(Str(command_text))
        existing == SortedByOrder(memos)
        lookup(idx) ==
            LET hits == {i \in 1..Len(existing) : existing[i].command_order = idx}
            IN  IF hits = {} THEN EmptyNotes
                ELSE NotesOf(existing[CHOOSE k \in hits : \A j \in hits : j <= k])
    IN  [idx \in 1..Len(commands) |->
            LET notes == lookup(idx)
            IN  CommandMemo(bundle_id, idx, commands[idx], notes[1], notes[2], notes[3])]

\* a variant that numbers from 0 (enumerate without start=1)
sync_memos_from_zero(bundle_id, memos, command_text) ==
    LET commands == normalize_commands(Str(command_text))
        existing == SortedByOrder(memos)
    IN  [idx \in 1..Len(commands) |->
            LET notes == MemoDataGet(existing, idx - 1, commands[idx])
            IN  CommandMemo(bundle_id, idx - 1, commands[idx], notes[1], notes[2], notes[3])]

\* a variant that reads the notes of the preceding position
sync_memos_shifted(bundle_id, memos, command_text) ==
    LET commands == normalize_commands(Str(command_text))
        existing == SortedByOrder(memos)
    IN  [idx \in 1..Len(commands) |->
            LET notes == MemoDataGet(existing, idx - 1, commands[idx])
            IN  CommandMemo(bundle_id, idx, commands[idx], notes[1], notes[2], notes[3])]

sync_memos(bundle_id, memos, command_text) ==
    LET commands == normalize_commands(Str(command_text))
        existing == SortedByOrder(memos)
    IN  [idx \in 1..Len(commands) |->
            LET notes == MemoDataGet(existing, idx, commands[idx])
            IN  CommandMemo(bundle_id, idx, commands[idx], notes[1], notes[2], notes[3])]

(***************************************************************************)
(* services.get_next_bundle_id / get_next_link_id                          *)
(***************************************************************************)
MaxOf(S) == CHOOSE m \in S : \A k \in S : k <= m

\* a variant that counts the entries instead of taking the largest key
get_next_bundle_id_len(bundle_map) == Cardinality(DOMAIN bundle_map) + 1

\* a variant that returns the largest key itself
get_next_bundle_id_no_incr(bundle_map) ==
    IF DOMAIN bundle_map = {} THEN 1 ELSE MaxOf(DOMAIN bundle_map)

get_next_bundle_id(bundle_map) ==
    IF DOMAIN bundle_map = {} THEN 1 ELSE MaxOf(DOMAIN bundle_map) + 1

get_next_link_id(link_map) ==
    IF DOMAIN link_map = {} THEN 1 ELSE MaxOf(DOMAIN link_map) + 1

(***************************************************************************)
(* State                                                                   *)
(***************************************************************************)
VARIABLES
    \* one call of normalize_commands on an arbitrary text
    n_pc, n_text, n_out, n_crlf,
    \* two calls in a row of sync_memos on one bundle
    y_pc, y_prev, y_text, y_memos, y_first,
    \* the in-memory dataset state (DatasetState.bundles, .memos_by_action),
    \* the last completed request, and the requests in flight
    bundles, memos_by_action, last, th,
    \* DatasetState.links, the rows last written to the dataset's files, and
    \* the bookkeeping of overlapping requests
    links, stored, hist,
    \* one run of parse_tree_file
    t_pc, t_lines, t_i, t_nodes, t_stack,
    \* one reading of a tree file: the file, what parse_tree_file and
    \* build_keyword_tree returned, and the keywords collected from it
    f_pc, f_file, f_root, f_forest, f_node, f_keywords,
    \* one call on the tagged record table: the records, the argument, the
    \* table file and the result
    p_pc, p_entries, p_arg, p_csv, p_out,
    \* one save and load of the annotation file: the annotation index saved,
    \* the file and the index loaded back
    m_pc, m_memos, m_file, m_loaded,
    \* one call of tree_node_to_dict: the tree file, the tagged records and
    \* the dict returned for every node
    d_pc, d_file, d_entries, d_out,
    \* the tagged record table under add_procedure and update_procedure: the
    \* table file, the last completed request and the number of requests
    e_csv, e_last, e_count

normVars == <<n_pc, n_text, n_out, n_crlf>>
syncVars == <<y_pc, y_prev, y_text, y_memos, y_first>>
dataVars == <<bundles, memos_by_action, last, th, links, stored, hist>>
treeVars == <<t_pc, t_lines, t_i, t_nodes, t_stack>>
forestVars == <<f_pc, f_file, f_root, f_forest, f_node, f_keywords>>
procVars == <<p_pc, p_entries, p_arg, p_csv, p_out>>
memoVars == <<m_pc, m_memos, m_file, m_loaded>>
dictVars == <<d_pc, d_file, d_entries, d_out>>
editVars == <<e_csv, e_last, e_count>>
vars == <<normVars, syncVars, dataVars, treeVars, forestVars, procVars,
          memoVars, dictVars, editVars>>

\* every sequence over S of length at most n
SeqsUpTo(S, n) == UNION {[1..k -> S] : k \in 0..n}

\* a function on the empty domain (an empty dict)
EmptyMap == [k \in {} |-> 0]

NormIdle ==
    /\ n_pc = "idle" /\ n_text = NoneText /\ n_out = <<>> /\ n_crlf = <<>>

SyncIdle ==
    /\ y_pc = 0 /\ y_prev = <<>> /\ y_text = <<>> /\ y_memos = <<>> /\ y_first = <<>>

DataIdle ==
    /\ bundles = EmptyMap /\ memos_by_action = EmptyMap
    /\ last = [op |-> "none", id |-> 0] /\ th = EmptyMap
    /\ links = EmptyMap
    /\ stored = [main |-> <<>>, memo |-> <<>>, link |-> <<>>]
    /\ hist = [stores |-> 0, completed |-> 0, overlapped |-> FALSE]

TreeIdle ==
    /\ t_pc = "idle" /\ t_lines = <<>> /\ t_i = 0 /\ t_nodes = <<>> /\ t_stack = <<>>

ForestIdle ==
    /\ f_pc = "idle" /\ f_file = [exists |-> FALSE, lines |-> <<>>]
    /\ f_root = [status |-> "unset", nodes |-> <<>>] /\ f_forest = <<>>
    /\ f_node = 0 /\ f_keywords = {}

ProcIdle ==
    /\ p_pc = "idle" /\ p_entries = <<>>
    /\ p_arg = [kind |-> "none", keys |-> {}, query |-> NoneText]
    /\ p_csv = [exists |-> FALSE, text |-> <<>>]
    /\ p_out = [raised |-> FALSE, rows |-> <<>>]

MemoIdle ==
    /\ m_pc = "idle" /\ m_memos = EmptyMap
    /\ m_file = [exists |-> FALSE, text |-> <<>>]
    /\ m_loaded = [raised |-> FALSE, memos |-> EmptyMap]

DictIdle ==
    /\ d_pc = "idle" /\ d_file = [exists |-> FALSE, lines |-> <<>>]
    /\ d_entries = <<>> /\ d_out = <<>>

EditIdle ==
    /\ e_csv = [exists |-> FALSE, text |-> <<>>]
    /\ e_last = [op |-> "none", form |-> <<>>, raised |-> FALSE] /\ e_count = 0

(***************************************************************************)
(* normalize_commands on every text up to MaxTextLen characters            *)
(***************************************************************************)
NormAlphabet == {"a", "b", SP, LF, CR}

NormInputs == {NoneText} \cup {Str(s) : s \in SeqsUpTo(NormAlphabet, MaxTextLen)}

\* the same text with every LF written as CR LF
RECURSIVE ToCRLF(_)
ToCRLF(s) ==
    IF s = <<>> THEN <<>>
    ELSE (IF Head(s) = LF THEN <<CR, LF>> ELSE <<Head(s)>>) \o ToCRLF(Tail(s))

NormInit ==
    /\ n_pc = "start" /\ n_text \in NormInputs /\ n_out = <<>> /\ n_crlf = <<>>
    /\ SyncIdle /\ DataIdle /\ TreeIdle /\ ForestIdle /\ ProcIdle
    /\ MemoIdle /\ DictIdle /\ EditIdle

Normalize ==
    /\ n_pc = "start"
    /\ n_out' = normalize_commands(n_text)
    /\ n_pc' = "normalized"
    /\ UNCHANGED <<n_text, n_crlf, syncVars, dataVars, treeVars, forestVars, procVars, memoVars, dictVars, editVars>>

NormalizeCRLF ==
    /\ n_pc = "normalized"
    /\ n_crlf' = normalize_commands(IF n_text.none THEN n_text
                                    ELSE Str(ToCRLF(n_text.s)))
    /\ n_pc' = "done"
    /\ UNCHANGED <<n_text, n_out, syncVars, dataVars, treeVars, forestVars, procVars, memoVars, dictVars, editVars>>

NormNext == Normalize \/ NormalizeCRLF

SpecNorm == NormInit /\ [][NormNext]_vars

\* C5: normalize_commands returns exactly the non-empty trimmed lines of the
\* text, in their original order, with no empty or whitespace-only string
\* among them (for None and "" it returns nothing), and the same text with
\* CR LF line endings gives the same result.
C5_NormalizeReturnsTrimmedLines ==
    n_pc \in {"normalized", "done"} =>
        LET u == IF n_text.none THEN <<>> ELSE RemoveChar(n_text.s, CR)
            brk == {0} \cup {i \in 1..Len(u) : u[i] = LF}
            ink(p) == u[p] \notin Whitespace
            lineOf(p) == MaxOf({b \in brk : b < p})
            firsts == {p \in 1..Len(u) :
                          ink(p) /\ \A q \in (lineOf(p) + 1)..(p - 1) : ~ink(q)}
            lastOf(p) == MaxOf({q \in p..Len(u) : ink(q) /\ lineOf(q) = lineOf(p)})
            rank(p) == Cardinality({q \in firsts : q <= p})
        IN  /\ Len(n_out) = Cardinality(firsts)
            /\ \A p \in firsts : n_out[rank(p)] = SubSeq(u, p, lastOf(p))
            /\ \A k \in 1..Len(n_out) :
                  \E j \in 1..Len(n_out[k]) : n_out[k][j] \notin Whitespace
            /\ (n_pc = "done" => n_crlf = n_out)

C5_Witness ==
    /\ n_pc = "done"
    /\ n_text = Str(<<SP, "a", LF, LF, "b">>)
    /\ n_out = << <<"a">>, <<"b">> >>
    /\ n_crlf = n_out

(***************************************************************************)
(* sync_memos, called twice in a row, on every previous annotation list    *)
(* with distinct ascending positions in 1..MaxCmds (gaps and stale         *)
(* positions included) and every text of up to MaxCmds command lines       *)
(***************************************************************************)
PrevCmds == {<<"a">>, <<"b">>}
NewCmds == {<<"a">>, <<"b">>, <<"x">>}
SomeNotes == <<"d1", "m1", "l1">>
NoteTriples == {EmptyNotes, SomeNotes}

\* the id of the bundle being synchronised
SyncBundleId == 1

\* the list, in ascending position, of the records at the positions in P
RECURSIVE PrevList(_, _, _)
PrevList(P, txt, nt) ==
    IF P = {} THEN <<>>
    ELSE LET p == MaxOf(P)
         IN  Append(PrevList(P \ {p}, txt, nt),
                    CommandMemo(SyncBundleId, p, txt[p], nt[p][1], nt[p][2], nt[p][3]))

PrevLists ==
    UNION {{PrevList(P, txt, nt) : txt \in [P -> PrevCmds], nt \in [P -> NoteTriples]} :
           P \in SUBSET (1..MaxCmds)}

SyncTexts == {join(cs, <<LF>>) : cs \in SeqsUpTo(NewCmds, MaxCmds)}

SyncInit ==
    /\ y_pc = 0 /\ y_prev \in PrevLists /\ y_text \in SyncTexts
    /\ y_memos = y_prev /\ y_first = <<>>
    /\ NormIdle /\ DataIdle /\ TreeIdle /\ ForestIdle /\ ProcIdle
    /\ MemoIdle /\ DictIdle /\ EditIdle

\* bundle.memos = the list sync_memos builds
SyncCall ==
    /\ y_pc < 2
    /\ y_memos' = sync_memos(SyncBundleId, y_memos, y_text)
    /\ y_first' = IF y_pc = 0 THEN y_memos' ELSE y_first
    /\ y_pc' = y_pc + 1
    /\ UNCHANGED <<y_prev, y_text, normVars, dataVars, treeVars, forestVars, procVars, memoVars, dictVars, editVars>>

SyncNext == SyncCall

SpecSync == SyncInit /\ [][SyncNext]_vars

\* the commands of the text being synchronised
SyncCommands == normalize_commands(Str(y_text))

\* the previous list has a record at position i with exactly this text
PrevMatches(i, command) ==
    {k \in 1..Len(y_prev) :
        y_prev[k].command_order = i /\ y_prev[k].command_text = command}

Put(m, k, v) == [x \in DOMAIN m \cup {k} |-> IF x = k THEN v ELSE m[x]]

\* del dict[k]
Del(m, k) == [x \in DOMAIN m \ {k} |-> m[x]]

\* the fields of ActionBundle the handlers read back; part and keywords are
\* stored and never read by the handlers modelled here
ActionBundle(id, bundle_name, command_text, memos) ==
    [id |-> id, bundle_name |-> bundle_name, command_text |-> command_text,
     memos |-> memos]

\* the keys of a dict in ascending order
RECURSIVE SortedKeys(_)
SortedKeys(S) ==
    IF S = {} THEN <<>> ELSE Append(SortedKeys(S \ {MaxOf(S)}), MaxOf(S))

RECURSIVE Concat(_)
Concat(seqs) == IF seqs = <<>> THEN <<>> ELSE Head(seqs) \o Concat(Tail(seqs))

\* database.save_bundles: one row per bundle, ascending id
save_bundles(bundle_map) ==
    LET ids == SortedKeys(DOMAIN bundle_map)
    IN  [i \in 1..Len(ids) |->
            [ID |-> bundle_map[ids[i]].id,
             BundleName |-> bundle_map[ids[i]].bundle_name,
             Command |-> bundle_map[ids[i]].command_text]]

\* database.save_memos: one row per annotation, ascending bundle id and
\* position, with the five MEMO_COLUMNS
save_memos(memo_map) ==
    LET ids == SortedKeys(DOMAIN memo_map)
        rows(memos) ==
            [i \in 1..Len(memos) |->
                [ID |-> memos[i].action_id,
                 CommandID |-> memos[i].command_order,
                 CommandText |-> memos[i].command_text,
                 MemoText |-> memos[i].memo_text,
                 OnenoteLink |-> memos[i].onenote_link]]
    IN  Concat([i \in 1..Len(ids) |-> rows(SortedByOrder(memo_map[ids[i]]))])

\* the link file: one row per link, ascending id
save_links(link_map) ==
    LET ids == SortedKeys(DOMAIN link_map)
    IN  [i \in 1..Len(ids) |-> link_map[ids[i]]]

\* a variant of _save_dataset that passes the bundle and annotation
\* collections only, so the link file is written without rows
save_dataset_without_links(bundle_map, memo_map, link_map) ==
    [main |-> save_bundles(bundle_map), memo |-> save_memos(memo_map), link |-> <<>>]

\* main._save_dataset: every file of the dataset is rewritten in full
save_dataset(bundle_map, memo_map, link_map) ==
    [main |-> save_bundles(bundle_map), memo |-> save_memos(memo_map),
     link |-> save_links(link_map)]

\* ---- create_bundle -------------------------------------------------------
\* the bundle built for an allocated id: ActionBundle(...); sync_memos(...)
new_bundle(bundle_id, bundle_name, command_text) ==
    LET text == strip(command_text)
    IN  ActionBundle(bundle_id, bundle_name, text, sync_memos(bundle_id, <<>>, text))

\* a variant that keeps the text as submitted (no command_text.strip())
create_bundle_unstripped(bundle_map, memo_map, bundle_name, command_text) ==
    LET bundle_id == get_next_bundle_id(bundle_map)
        memos == sync_memos(bundle_id, <<>>, command_text)
    IN  [bundle_id |-> bundle_id,
         bundles |-> Put(bundle_map, bundle_id,
                         ActionBundle(bundle_id, bundle_name, command_text, memos)),
         memos_by_action |-> Put(memo_map, bundle_id, memos)]

create_bundle(bundle_map, memo_map, bundle_name, command_text) ==
    LET bundle_id == get_next_bundle_id(bundle_map)
        bundle == new_bundle(bundle_id, bundle_name, command_text)
    IN  [bundle_id |-> bundle_id,
         bundles |-> Put(bundle_map, bundle_id, bundle),
         memos_by_action |-> Put(memo_map, bundle_id, bundle.memos)]

\* ---- update_bundle (the bundle exists) -----------------------------------
\* a variant that stores the new text without synchronising the annotations
update_bundle_no_sync(bundle_map, memo_map, bundle_id, bundle_name, command_text) ==
    LET text == strip(command_text)
        memos == bundle_map[bundle_id].memos
    IN  [bundles |-> Put(bundle_map, bundle_id,
                         ActionBundle(bundle_id, bundle_name, text, memos)),
         memos_by_action |-> Put(memo_map, bundle_id, memos)]

update_bundle(bundle_map, memo_map, bundle_id, bundle_name, command_text) ==
    LET text == strip(command_text)
        memos == sync_memos(bundle_map[bundle_id].id, bundle_map[bundle_id].memos, text)
    IN  [bundles |-> Put(bundle_map, bundle_id,
                         ActionBundle(bundle_map[bundle_id].id, bundle_name, text, memos)),
         memos_by_action |-> Put(memo_map, bundle_id, memos)]

\* ---- update_memos (the bundle exists) ------------------------------------
\* `aggregated` maps each submitted position to what the form gave for it:
\* has_memo with memo_text and onenote_link (a memo_text_<n> key), has_desc
\* with description (a description_<n> key)
ApplyPayload(memo, payload) ==
    LET m1 == IF payload.has_memo
              THEN [memo EXCEPT !.memo_text = payload.memo_text,
                                !.onenote_link = payload.onenote_link]
              ELSE memo
    IN  IF payload.has_desc THEN [m1 EXCEPT !.description = payload.description]
        ELSE m1

\* next(m for m in bundle.memos if m.command_order == order): first match
FirstWithOrder(memos, order) ==
    LET hits == {i \in 1..Len(memos) : memos[i].command_order = order}
    IN  IF hits = {} THEN 0 ELSE CHOOSE k \in hits : \A j \in hits : k <= j

\* a variant that creates a record for a submitted position that has none
update_memos_adding(bundle_map, memo_map, bundle_id, aggregated) ==
    LET old == bundle_map[bundle_id].memos
        edited == [i \in 1..Len(old) |->
                     IF /\ old[i].command_order \in DOMAIN aggregated
                        /\ FirstWithOrder(old, old[i].command_order) = i
                     THEN ApplyPayload(old[i], aggregated[old[i].command_order])
                     ELSE old[i]]
        missing == SortedKeys({o \in DOMAIN aggregated : FirstWithOrder(old, o) = 0})
        memos == edited \o
                 [i \in 1..Len(missing) |->
                     ApplyPayload(CommandMemo(bundle_id, missing[i], <<>>, "", "", ""),
                                  aggregated[missing[i]])]
    IN  [bundles |-> Put(bundle_map, bundle_id,
                         [bundle_map[bundle_id] EXCEPT !.memos = memos]),
         memos_by_action |-> Put(memo_map, bundle_id, memos)]

update_memos(bundle_map, memo_map, bundle_id, aggregated) ==
    LET old == bundle_map[bundle_id].memos
        memos == [i \in 1..Len(old) |->
                     IF /\ old[i].command_order \in DOMAIN aggregated
                        /\ FirstWithOrder(old, old[i].command_order) = i
                     THEN ApplyPayload(old[i], aggregated[old[i].command_order])
                     ELSE old[i]]
    IN  [bundles |-> Put(bundle_map, bundle_id,
                         [bundle_map[bundle_id] EXCEPT !.memos = memos]),
         memos_by_action |-> Put(memo_map, bundle_id, memos)]

\* ---- delete_bundle -------------------------------------------------------
\* a variant that forgets the annotation index
delete_bundle_keep_memos(bundle_map, memo_map, bundle_id) ==
    [bundles |-> Del(bundle_map, bundle_id), memos_by_action |-> memo_map]

\* a variant that also drops every bundle stored under a larger id
delete_bundle_and_later(bundle_map, memo_map, bundle_id) ==
    [bundles |-> [k \in {j \in DOMAIN bundle_map : j < bundle_id} |-> bundle_map[k]],
     memos_by_action |-> [k \in {j \in DOMAIN memo_map : j < bundle_id} |-> memo_map[k]]]

delete_bundle(bundle_map, memo_map, bundle_id) ==
    [bundles |-> Del(bundle_map, bundle_id),
     memos_by_action |-> Del(memo_map, bundle_id)]

(***************************************************************************)
(* The dataset under serialized requests, starting empty                   *)
(***************************************************************************)
\* most bundles ever allocated in one run
MaxBundles == 2

Names == {"n1"}

\* command texts as submitted in the form
DataTexts ==
    { <<>>,
      <<"b">>,
      <<"a", LF, "b">>,
      <<SP, "a", CR, LF, CR, LF, "b", LF>> }

RequestIds == 1..MaxBundles

\* what a memo form can give for one position: memo text and link with a
\* description, or every field blanked
PayloadEntries ==
    { [has_memo |-> TRUE, memo_text |-> "m", onenote_link |-> "l",
       has_desc |-> TRUE, description |-> "d"],
      [has_memo |-> TRUE, memo_text |-> "", onenote_link |-> "",
       has_desc |-> TRUE, description |-> ""] }

\* positions a memo form can name (3 is never a position of DataTexts)
PayloadOrders == {1, 2, 3}

\* forms naming one or two positions
Payloads ==
    UNION {[O -> PayloadEntries] :
           O \in {P \in SUBSET PayloadOrders : Cardinality(P) \in {1, 2}}}

Init ==
    /\ bundles = EmptyMap /\ memos_by_action = EmptyMap
    /\ last = [op |-> "none", id |-> 0] /\ th = EmptyMap
    /\ links = EmptyMap
    /\ stored = [main |-> <<>>, memo |-> <<>>, link |-> <<>>]
    /\ hist = [stores |-> 0, completed |-> 0, overlapped |-> FALSE]
    /\ NormIdle /\ SyncIdle /\ TreeIdle /\ ForestIdle /\ ProcIdle
    /\ MemoIdle /\ DictIdle /\ EditIdle

CreateBundle ==
    \E bundle_name \in Names, command_text \in DataTexts :
        /\ get_next_bundle_id(bundles) <= MaxBundles
        /\ LET r == create_bundle(bundles, memos_by_action, bundle_name, command_text)
           IN  /\ bundles' = r.bundles
               /\ memos_by_action' = r.memos_by_action
               /\ stored' = save_dataset(r.bundles, r.memos_by_action, links)
               /\ last' = [op |-> "create_bundle", id |-> r.bundle_id]
        /\ UNCHANGED <<th, links, hist, normVars, syncVars, treeVars, forestVars, procVars, memoVars, dictVars, editVars>>

UpdateBundle ==
    \E bundle_id \in RequestIds, bundle_name \in Names, command_text \in DataTexts :
        /\ bundle_id \in DOMAIN bundles
        /\ LET r == update_bundle(bundles, memos_by_action, bundle_id, bundle_name,
                                  command_text)
           IN  /\ bundles' = r.bundles
               /\ memos_by_action' = r.memos_by_action
               /\ stored' = save_dataset(r.bundles, r.memos_by_action, links)
               /\ last' = [op |-> "update_bundle", id |-> bundle_id]
        /\ UNCHANGED <<th, links, hist, normVars, syncVars, treeVars, forestVars, procVars, memoVars, dictVars, editVars>>

UpdateMemos ==
    \E bundle_id \in RequestIds, aggregated \in Payloads :
        /\ bundle_id \in DOMAIN bundles
        /\ LET r == update_memos(bundles, memos_by_action, bundle_id, aggregated)
           IN  /\ bundles' = r.bundles
               /\ memos_by_action' = r.memos_by_action
               /\ stored' = save_dataset(r.bundles, r.memos_by_action, links)
               /\ last' = [op |-> "update_memos", id |-> bundle_id]
        /\ UNCHANGED <<th, links, hist, normVars, syncVars, treeVars, forestVars, procVars, memoVars, dictVars, editVars>>

\* update_bundle / update_memos on an id that is not in the store: HTTP 404
\* before anything is changed or saved
BundleNotFound ==
    \E bundle_id \in RequestIds :
        /\ bundle_id \notin DOMAIN bundles
        /\ last' = [op |-> "not_found", id |-> bundle_id]
        /\ UNCHANGED <<bundles, memos_by_action, th, links, stored, hist,
                       normVars, syncVars, treeVars, forestVars, procVars, memoVars, dictVars, editVars>>

DeleteBundle ==
    \E bundle_id \in RequestIds :
        /\ LET r == delete_bundle(bundles, memos_by_action, bundle_id)
           IN  /\ bundles' = r.bundles
               /\ memos_by_action' = r.memos_by_action
               /\ stored' = save_dataset(r.bundles, r.memos_by_action, links)
               /\ last' = [op |-> "delete_bundle", id |-> bundle_id]
        /\ UNCHANGED <<th, links, hist, normVars, syncVars, treeVars, forestVars, procVars, memoVars, dictVars, editVars>>

Next == CreateBundle \/ UpdateBundle \/ UpdateMemos \/ BundleNotFound \/ DeleteBundle

Spec == Init /\ [][Next]_vars

\* the positions and texts of an annotation list, without the notes
Skeleton(memos) ==
    [i \in 1..Len(memos) |-> <<memos[i].command_order, memos[i].command_text>>]

\* the annotations of a bundle mirror its command text
Mirrors(bundle) ==
    LET commands == normalize_commands(Str(bundle.command_text))
    IN  Skeleton(bundle.memos) = [i \in 1..Len(commands) |-> <<i, commands[i]>>]

C6_AnnotationsMirrorCommands == \A k \in DOMAIN bundles : Mirrors(bundles[k])

C6_UpdateMemosKeepsSkeleton ==
    last'.op = "update_memos" /\ last'.id \in DOMAIN bundles =>
        /\ DOMAIN bundles' = DOMAIN bundles
        /\ \A k \in DOMAIN bundles :
              /\ Skeleton(bundles'[k].memos) = Skeleton(bundles[k].memos)
              /\ bundles'[k].command_text = bundles[k].command_text
              /\ k # last'.id => bundles'[k] = bundles[k]

C20_AnnotationIndexAgreesWithBundles ==
    /\ DOMAIN memos_by_action = DOMAIN bundles
    /\ \A k \in DOMAIN bundles :
          /\ memos_by_action[k] = bundles[k].memos
          /\ \A i \in 1..Len(bundles[k].memos) : bundles[k].memos[i].action_id = k

\* bundle 1 of two has been deleted: the index holds the two annotations of
\* bundle 2 and nothing else
C20_Witness ==
    /\ last = [op |-> "delete_bundle", id |-> 1]
    /\ DOMAIN bundles = {2}
    /\ DOMAIN memos_by_action = {2}
    /\ Len(memos_by_action[2]) = 2
    /\ NotesOf(memos_by_action[2][1]) = <<"d", "m", "l">>

(***************************************************************************)
(* Links (main.create_links)                                               *)
(***************************************************************************)
PIPE == "|"
COMMA == ","
Digits == {"1", "2"}

DigitValue(c) == IF c = "1" THEN 1 ELSE 2

RECURSIVE IntOf(_)
IntOf(s) ==
    IF s = <<>> THEN 0
    ELSE 10 * IntOf(SubSeq(s, 1, Len(s) - 1)) + DigitValue(s[Len(s)])

\* main._parse_optional_int on a string: <<>> is None, <<n>> the integer n
\* (the texts explored hold no sign and no underscore)
parse_optional_int(value) ==
    LET v == strip(value)
    IN  IF v = <<>> THEN <<>>
        ELSE IF \A i \in 1..Len(v) : v[i] \in Digits THEN <<IntOf(v)>>
        ELSE <<>>

\* main._merge_tags: the distinct trimmed tokens of the parts, in order
RECURSIVE AddTokens(_, _)
AddTokens(tokens, raws) ==
    IF raws = <<>> THEN tokens
    ELSE LET cleaned == strip(Head(raws))
         IN  AddTokens(IF cleaned # <<>> /\ \A i \in 1..Len(tokens) : tokens[i] # cleaned
                       THEN Append(tokens, cleaned) ELSE tokens,
                       Tail(raws))

RECURSIVE MergeParts(_, _)
MergeParts(tokens, parts) ==
    IF parts = <<>> THEN tokens
    ELSE MergeParts(IF Head(parts) = <<>> THEN tokens
                    ELSE AddTokens(tokens, split(Head(parts), COMMA)),
                    Tail(parts))

merge_tags(parts) == join(MergeParts(<<>>, parts), <<COMMA, SP>>)

LinkEntry(id, bundle_id, command_order, url, description, tags) ==
    [id |-> id, bundle_id |-> bundle_id, command_order |-> command_order,
     url |-> url, description |-> description, tags |-> tags]

\* a or b on strings
OrElse(a, b) == IF a # <<>> THEN a ELSE b

\* the loop of create_links over the trimmed lines
RECURSIVE AddLinks(_, _, _, _, _)
AddLinks(link_map, lines, next_link_id, created, form) ==
    IF lines = <<>> THEN [links |-> link_map, created |-> created]
    ELSE LET line == Head(lines)
             pieces == split(line, PIPE)
             parts == [i \in 1..Len(pieces) |-> strip(pieces[i])]
             url == parts[1]
             part(n) == IF Len(parts) >= n THEN parts[n] ELSE <<>>
             entry == LinkEntry(next_link_id,
                                parse_optional_int(OrElse(part(4), form.bundle_default)),
                                parse_optional_int(OrElse(part(5), form.command_default)),
                                url, part(2),
                                merge_tags(<<part(3), strip(form.global_tags)>>))
         IN  IF line = <<>> \/ url = <<>>
             THEN AddLinks(link_map, Tail(lines), next_link_id, created, form)
             ELSE AddLinks(Put(link_map, next_link_id, entry), Tail(lines),
                           next_link_id + 1, created + 1, form)

\* a variant that numbers the created links from 1
create_links_from_one(link_map, form) ==
    LET pieces == split(RemoveChar(form.link_entries, CR), LF)
        lines == [i \in 1..Len(pieces) |-> strip(pieces[i])]
    IN  AddLinks(link_map, lines, 1, 0, form)

create_links(link_map, form) ==
    LET pieces == split(RemoveChar(form.link_entries, CR), LF)
        lines == [i \in 1..Len(pieces) |-> strip(pieces[i])]
    IN  AddLinks(link_map, lines, get_next_link_id(link_map), 0, form)

(***************************************************************************)
(* The id allocators on a dataset loaded with arbitrary ids                *)
(***************************************************************************)
\* largest id in the loaded files
MaxLoadedId == 7
\* requests served in one run
MaxAllocSteps == 2

AllocTexts == { <<"a">> }

LinkForms ==
    { [global_tags |-> <<>>, bundle_default |-> <<>>, command_default |-> <<>>,
       link_entries |-> <<SP, LF>>],
      [global_tags |-> <<>>, bundle_default |-> <<"1">>, command_default |-> <<>>,
       link_entries |-> <<"u">>],
      [global_tags |-> <<"t">>, bundle_default |-> <<>>, command_default |-> <<>>,
       link_entries |-> <<"u", CR, LF, LF, PIPE, "d", LF,
                          "v", PIPE, "d", PIPE, "t", COMMA, "s", PIPE, "2", PIPE, "1">>] }

\* the dataset as get_all_data returns it for files holding the ids K:
\* bundles without commands, no annotation rows, one link per id
LoadedBundles(K) == [k \in K |-> ActionBundle(k, "n1", <<>>, <<>>)]
LoadedLinks(K) == [k \in K |-> LinkEntry(k, <<>>, <<>>, <<"u">>, <<>>, <<>>)]

AllocInit ==
    /\ \E K \in SUBSET (1..MaxLoadedId) :
          /\ bundles = LoadedBundles(K)
          /\ links = LoadedLinks(K)
          /\ stored = save_dataset(LoadedBundles(K), EmptyMap, LoadedLinks(K))
    /\ memos_by_action = EmptyMap
    /\ last = [op |-> "none", id |-> 0] /\ th = EmptyMap
    /\ hist = [stores |-> 0, completed |-> 0, overlapped |-> FALSE]
    /\ NormIdle /\ SyncIdle /\ TreeIdle /\ ForestIdle /\ ProcIdle
    /\ MemoIdle /\ DictIdle /\ EditIdle

AllocCreateBundle ==
    \E bundle_name \in Names, command_text \in AllocTexts :
        /\ hist.completed < MaxAllocSteps
        /\ LET r == create_bundle(bundles, memos_by_action, bundle_name, command_text)
           IN  /\ bundles' = r.bundles
               /\ memos_by_action' = r.memos_by_action
               /\ stored' = save_dataset(r.bundles, r.memos_by_action, links)
               /\ last' = [op |-> "create_bundle", id |-> r.bundle_id]
        /\ hist' = [hist EXCEPT !.completed = @ + 1]
        /\ UNCHANGED <<th, links, normVars, syncVars, treeVars, forestVars, procVars, memoVars, dictVars, editVars>>

AllocCreateLinks ==
    \E form \in LinkForms :
        /\ hist.completed < MaxAllocSteps
        /\ LET r == create_links(links, form)
           IN  /\ links' = r.links
               /\ stored' = IF r.created > 0
                            THEN save_dataset(bundles, memos_by_action, r.links)
                            ELSE stored
               /\ last' = [op |-> "create_links", id |-> get_next_link_id(links)]
        /\ hist' = [hist EXCEPT !.completed = @ + 1]
        /\ UNCHANGED <<bundles, memos_by_action, th, normVars, syncVars, treeVars, forestVars, procVars, memoVars, dictVars, editVars>>

AllocNext == AllocCreateBundle \/ AllocCreateLinks

SpecAlloc == AllocInit /\ [][AllocNext]_vars

\* id is 1 for no keys and the largest key plus one otherwise
IsNextId(id, keys) ==
    /\ id \notin keys
    /\ keys = {} => id = 1
    /\ keys # {} => (id - 1) \in keys /\ \A k \in keys : k < id

C7_BundleIdsAreKeys == \A k \in DOMAIN bundles : bundles[k].id = k

C7_CreateAllocatesFreshId ==
    /\ last'.op = "create_bundle" =>
          /\ IsNextId(last'.id, DOMAIN bundles)
          /\ DOMAIN bundles' = DOMAIN bundles \cup {last'.id}
          /\ \A k \in DOMAIN bundles : bundles'[k] = bundles[k]
    /\ last'.op = "create_links" =>
          /\ IsNextId(last'.id, DOMAIN links)
          /\ \A k \in DOMAIN links : k \in DOMAIN links' /\ links'[k] = links[k]
          /\ \A k \in DOMAIN links' \ DOMAIN links : k >= last'.id /\ links'[k].id = k

\* C7: the id create_bundle (create_links) takes from get_next_bundle_id
\* (get_next_link_id) is 1 for an empty mapping and the largest key plus one
\* otherwise, hence no key of the mapping: requests served one after another
\* never overwrite an entry, and every bundle is stored under its own id.
C7_AllocatorReturnsMaxPlusOne ==
    /\ []C7_BundleIdsAreKeys
    /\ [][C7_CreateAllocatesFreshId]_vars

\* keys {3, 7}: the bundle and the link created next both got id 8
C7_Witness ==
    /\ DOMAIN bundles = {3, 7, 8}
    /\ last = [op |-> "create_bundle", id |-> 8]
    /\ DOMAIN links = {3, 7, 8}
    /\ links[8].id = 8

(***************************************************************************)
(* Every mutating request of a dataset, served one after another from the  *)
(* empty dataset.  `last` also records whether the request called          *)
(* _save_dataset, whether the id it named was in the store, and the form   *)
(* it submitted.                                                           *)
(***************************************************************************)
\* requests served in one run
MaxStoreSteps == 5

StoreTexts == { <<"a">>, <<"a", LF, "b">> }
StoreIds == 1..2
StorePayloads ==
    { [o \in {1} |-> [has_memo |-> TRUE, memo_text |-> "m", onenote_link |-> "l",
                      has_desc |-> TRUE, description |-> "d"]] }
NoForm == [global_tags |-> <<>>, bundle_default |-> <<>>, command_default |-> <<>>,
           link_entries |-> <<>>]

\* a variant that saves whether or not a link was removed, after dropping
\* the whole collection for an id that is not in it
delete_link_clearing(link_map, link_id) ==
    [links |-> IF link_id \in DOMAIN link_map THEN Del(link_map, link_id) ELSE EmptyMap,
     saved |-> link_id \in DOMAIN link_map]

\* delete_link: the link is removed and the dataset saved only when the id
\* is in the collection
delete_link(link_map, link_id) ==
    [links |-> IF link_id \in DOMAIN link_map THEN Del(link_map, link_id) ELSE link_map,
     saved |-> link_id \in DOMAIN link_map]

NoRequest == [op |-> "none", id |-> 0, hit |-> FALSE]

\* the record of a completed request; prev is the request before it
Done(op, id, saved, hit, form) ==
    [op |-> op, id |-> id, saved |-> saved, hit |-> hit, form |-> form,
     prev |-> [op |-> last.op, id |-> last.id, hit |-> last.hit]]

StoreInit ==
    /\ bundles = EmptyMap /\ memos_by_action = EmptyMap
    /\ last = [op |-> "none", id |-> 0, saved |-> FALSE, hit |-> FALSE,
               form |-> NoForm, prev |-> NoRequest]
    /\ th = EmptyMap
    /\ links = EmptyMap
    /\ stored = [main |-> <<>>, memo |-> <<>>, link |-> <<>>]
    /\ hist = [stores |-> 0, completed |-> 0, overlapped |-> FALSE]
    /\ NormIdle /\ SyncIdle /\ TreeIdle /\ ForestIdle /\ ProcIdle
    /\ MemoIdle /\ DictIdle /\ EditIdle

\* what every request of this run leaves alone, and the count of requests
StoreStep ==
    /\ hist.completed < MaxStoreSteps
    /\ hist' = [hist EXCEPT !.completed = @ + 1]
    /\ UNCHANGED <<th, normVars, syncVars, treeVars, forestVars, procVars, memoVars, dictVars, editVars>>

StoreCreateBundle ==
    \E bundle_name \in Names, command_text \in StoreTexts :
        /\ StoreStep
        /\ LET r == create_bundle(bundles, memos_by_action, bundle_name, command_text)
           IN  /\ bundles' = r.bundles
               /\ memos_by_action' = r.memos_by_action
               /\ stored' = save_dataset(r.bundles, r.memos_by_action, links)
               /\ last' = Done("create_bundle", r.bundle_id, TRUE, FALSE, NoForm)
        /\ UNCHANGED links

StoreUpdateBundle ==
    \E bundle_id \in StoreIds, bundle_name \in Names, command_text \in StoreTexts :
        /\ StoreStep
        /\ bundle_id \in DOMAIN bundles
        /\ LET r == update_bundle(bundles, memos_by_action, bundle_id, bundle_name,
                                  command_text)
           IN  /\ bundles' = r.bundles
               /\ memos_by_action' = r.memos_by_action
               /\ stored' = save_dataset(r.bundles, r.memos_by_action, links)
               /\ last' = Done("update_bundle", bundle_id, TRUE, TRUE, NoForm)
        /\ UNCHANGED links

StoreUpdateMemos ==
    \E bundle_id \in StoreIds, aggregated \in StorePayloads :
        /\ StoreStep
        /\ bundle_id \in DOMAIN bundles
        /\ LET r == update_memos(bundles, memos_by_action, bundle_id, aggregated)
           IN  /\ bundles' = r.bundles
               /\ memos_by_action' = r.memos_by_action
               /\ stored' = save_dataset(r.bundles, r.memos_by_action, links)
               /\ last' = Done("update_memos", bundle_id, TRUE, TRUE, NoForm)
        /\ UNCHANGED links

\* delete_bundle saves whether or not the id was in the store
StoreDeleteBundle ==
    \E bundle_id \in StoreIds :
        /\ StoreStep
        /\ LET r == delete_bundle(bundles, memos_by_action, bundle_id)
           IN  /\ bundles' = r.bundles
               /\ memos_by_action' = r.memos_by_action
               /\ stored' = save_dataset(r.bundles, r.memos_by_action, links)
               /\ last' = Done("delete_bundle", bundle_id, TRUE,
                               bundle_id \in DOMAIN bundles, NoForm)
        /\ UNCHANGED links

\* create_links saves only `if created`
StoreCreateLinks ==
    \E form \in LinkForms :
        /\ StoreStep
        /\ LET r == create_links(links, form)
           IN  /\ links' = r.links
               /\ stored' = IF r.created > 0
                            THEN save_dataset(bundles, memos_by_action, r.links)
                            ELSE stored
               /\ last' = Done("create_links", get_next_link_id(links), r.created > 0,
                               FALSE, form)
        /\ UNCHANGED <<bundles, memos_by_action>>

StoreDeleteLink ==
    \E link_id \in StoreIds :
        /\ StoreStep
        /\ LET r == delete_link(links, link_id)
           IN  /\ links' = r.links
               /\ stored' = IF r.saved
                            THEN save_dataset(bundles, memos_by_action, r.links)
                            ELSE stored
               /\ last' = Done("delete_link", link_id, r.saved, r.saved, NoForm)
        /\ UNCHANGED <<bundles, memos_by_action>>

StoreNext ==
    \/ StoreCreateBundle \/ StoreUpdateBundle \/ StoreUpdateMemos
    \/ StoreDeleteBundle \/ StoreCreateLinks \/ StoreDeleteLink

SpecStore == StoreInit /\ [][StoreNext]_vars

\* ---- the files compared with the memory, row by row ------------------------
\* the bundle file holds one row per stored bundle, ascending by id, with
\* the bundle's values
MainFileIsCopy ==
    /\ Len(stored.main) = Cardinality(DOMAIN bundles)
    /\ \A i \in 1..Len(stored.main) :
          /\ stored.main[i].ID \in DOMAIN bundles
          /\ i > 1 => stored.main[i - 1].ID < stored.main[i].ID
          /\ stored.main[i].BundleName = bundles[stored.main[i].ID].bundle_name
          /\ stored.main[i].Command = bundles[stored.main[i].ID].command_text

\* the annotation file holds one row per annotation of the index, ascending
\* by bundle id and position, with the values of the columns the file has
MemoFileIsCopy ==
    /\ Len(stored.memo)
         = Cardinality({<<k, j>> \in (DOMAIN memos_by_action) \X (1..MaxCmds) :
                           j <= Len(memos_by_action[k])})
    /\ \A i \in 1..Len(stored.memo) :
          LET row == stored.memo[i]
          IN  /\ row.ID \in DOMAIN memos_by_action
              /\ i > 1 => \/ stored.memo[i - 1].ID < row.ID
                          \/ /\ stored.memo[i - 1].ID = row.ID
                             /\ stored.memo[i - 1].CommandID < row.CommandID
              /\ \E j \in 1..Len(memos_by_action[row.ID]) :
                    LET memo == memos_by_action[row.ID][j]
                    IN  /\ memo.action_id = row.ID
                        /\ memo.command_order = row.CommandID
                        /\ memo.command_text = row.CommandText
                        /\ memo.memo_text = row.MemoText
                        /\ memo.onenote_link = row.OnenoteLink

\* the link file holds one row per link, ascending by id
LinkFileIsCopy ==
    /\ Len(stored.link) = Cardinality(DOMAIN links)
    /\ \A i \in 1..Len(stored.link) :
          /\ stored.link[i].id \in DOMAIN links
          /\ i > 1 => stored.link[i - 1].id < stored.link[i].id
          /\ stored.link[i] = links[stored.link[i].id]

LinkedBundle(bundle_map, link) ==
    IF link.bundle_id # <<>> /\ link.bundle_id[1] \in DOMAIN bundle_map
    THEN <<bundle_map[link.bundle_id[1]]>>
    ELSE <<>>

C18_DeleteBundleFrame ==
    last'.op = "delete_bundle" =>
        /\ links' = links
        /\ DOMAIN bundles' = DOMAIN bundles \ {last'.id}
        /\ DOMAIN memos_by_action' = DOMAIN memos_by_action \ {last'.id}
        /\ \A k \in DOMAIN bundles' : bundles'[k] = bundles[k]
        /\ \A k \in DOMAIN memos_by_action' : memos_by_action'[k] = memos_by_action[k]
        /\ last'.id \notin DOMAIN bundles =>
              bundles' = bundles /\ memos_by_action' = memos_by_action
        /\ \A l \in DOMAIN links :
              links[l].bundle_id = <<last'.id>> => LinkedBundle(bundles', links'[l]) = <<>>

\* C18 as stated: a bundle created right after the bundle with the largest id
\* was deleted gets the deleted id, and the links that named the deleted
\* bundle show the new one.
C18_DeletedLargestIdIsReused ==
    ( /\ last.op = "create_bundle"
      /\ last.prev.op = "delete_bundle" /\ last.prev.hit
      /\ \A k \in DOMAIN bundles \ {last.id} : k < last.prev.id ) =>
        /\ last.id = last.prev.id
        /\ \A l \in DOMAIN links :
              links[l].bundle_id = <<last.prev.id>> =>
                  LinkedBundle(bundles, links[l]) = <<bundles[last.id]>>

\* a bundle created right after a delete gets the deleted id exactly when
\* that id is one above the largest id left (1 when no bundle is left)
C18_DeletedIdIsReusedWhenNext ==
    ( /\ last.op = "create_bundle"
      /\ last.prev.op = "delete_bundle" /\ last.prev.hit ) =>
        LET rest == DOMAIN bundles \ {last.id}
            above == IF rest = {} THEN 1 ELSE MaxOf(rest) + 1
        IN  /\ last.id = above
            /\ last.id = last.prev.id <=> last.prev.id = above
            /\ last.id = last.prev.id =>
                  \A l \in DOMAIN links :
                      links[l].bundle_id = <<last.prev.id>> =>
                          LinkedBundle(bundles, links[l]) = <<bundles[last.id]>>

\* C18: delete_bundle removes the bundle and its annotation list and nothing
\* else, links included, so a link that named the bundle names no bundle
\* afterwards; deleting an id that is not stored changes nothing; a bundle
\* created right after a delete gets the deleted id when that id is one above
\* the largest id left (1 when none is left), and the links that named the
\* deleted bundle then show the new one.
C18_DeleteBundleLeavesLinksIdIsReused ==
    /\ []C18_DeletedIdIsReusedWhenNext
    /\ [][C18_DeleteBundleFrame]_vars

\* bundle 1 was linked, deleted and created again: link 1 shows the new bundle
C18_Witness ==
    /\ last.op = "create_bundle" /\ last.id = 1
    /\ last.prev = [op |-> "delete_bundle", id |-> 1, hit |-> TRUE]
    /\ 1 \in DOMAIN links /\ links[1].bundle_id = <<1>>
    /\ LinkedBundle(bundles, links[1]) = <<bundles[1]>>

\* ---- the submitted lines of create_links, read without the handler ---------
\* the text of a line before its first "|", trimmed
UrlOf(line) ==
    LET bars == {i \in 1..Len(line) : line[i] = PIPE}
        stop == IF bars = {} THEN Len(line) + 1
                ELSE CHOOSE i \in bars : \A j \in bars : i <= j
    IN  strip(SubSeq(line, 1, stop - 1))

\* the URLs of the lines that have one, in line order
SubmittedUrls(form) ==
    LET lines == split(RemoveChar(form.link_entries, CR), LF)
        urls == [i \in 1..Len(lines) |-> UrlOf(lines[i])]
    IN  SelectSeq(urls, LAMBDA u : u # <<>>)

C19_CreateLinksStep ==
    last'.op = "create_links" =>
        LET urls == SubmittedUrls(last'.form)
            first == IF DOMAIN links = {} THEN 1 ELSE MaxOf(DOMAIN links) + 1
        IN  /\ DOMAIN links' = DOMAIN links \cup (first..(first + Len(urls) - 1))
            /\ first \notin DOMAIN links
            /\ \A k \in DOMAIN links : links'[k] = links[k]
            /\ \A j \in 1..Len(urls) :
                  /\ links'[first + j - 1].id = first + j - 1
                  /\ links'[first + j - 1].url = urls[j]
            /\ last'.saved = (Len(urls) > 0)
            /\ Len(urls) = 0 => links' = links /\ stored' = stored

\* C19: create_links adds one link per line with a non-empty URL, under the
\* ids max+1, max+2, ... (1, 2, ... for an empty collection) in line order,
\* keeps every existing link, and neither changes the collection nor saves
\* when no line has a URL.
C19_CreateLinksAllocatesConsecutiveIds ==
    [][C19_CreateLinksStep]_vars

\* the five-line form (a blank line and a line without URL among them) was
\* submitted to a collection holding link 2 only: links 3 and 4 were added
C19_Witness ==
    /\ last.op = "create_links" /\ last.saved
    /\ Len(SubmittedUrls(last.form)) = 2
    /\ DOMAIN links = {2, 3, 4}
    /\ links[3].url = <<"u">> /\ links[4].url = <<"v">>
    /\ links[4].bundle_id = <<2>> /\ links[2].bundle_id = <<1>>

(***************************************************************************)
(* create_bundle requests served by concurrent worker threads              *)
(*                                                                         *)
(* create_bundle is a plain `def` handler, which the framework runs on a   *)
(* thread pool; nothing in main.py locks the dataset state.  A request is  *)
(* split at its reads and writes of the shared state: line 327 (read the   *)
(* next id), line 340 (store the bundle), line 341 (store the annotation   *)
(* list), line 343 (save).                                                 *)
(***************************************************************************)
\* worker threads, each serving one create_bundle request
NThreads == 2

Threads == 1..NThreads

ThreadNames == <<"n1", "n2", "n3", "n4">>

ConcTexts == { <<"a">>, <<"a", LF, "b">> }

InFlight(t) == th[t].pc \in {"have_id", "stored", "indexed"}

ConcInit ==
    /\ bundles = EmptyMap /\ memos_by_action = EmptyMap
    /\ last = [op |-> "none", id |-> 0]
    /\ th = [t \in Threads |-> [pc |-> "idle", bundle_id |-> 0, seen |-> 0,
                                 stored_at |-> 0,
                                 bundle |-> ActionBundle(0, "", <<>>, <<>>)]]
    /\ links = EmptyMap
    /\ stored = [main |-> <<>>, memo |-> <<>>, link |-> <<>>]
    /\ hist = [stores |-> 0, completed |-> 0, overlapped |-> FALSE]
    /\ NormIdle /\ SyncIdle /\ TreeIdle /\ ForestIdle /\ ProcIdle
    /\ MemoIdle /\ DictIdle /\ EditIdle

\* lines 326-338: allocate the id and build the bundle
ConcReadId(t) ==
    \E command_text \in ConcTexts :
        /\ th[t].pc = "idle"
        /\ LET bundle_id == get_next_bundle_id(bundles)
           IN  th' = [th EXCEPT ![t] =
                         [pc |-> "have_id", bundle_id |-> bundle_id,
                          seen |-> hist.stores, stored_at |-> 0,
                          bundle |-> new_bundle(bundle_id, ThreadNames[t], command_text)]]
        /\ hist' = [hist EXCEPT !.overlapped = @ \/ \E u \in Threads \ {t} : InFlight(u)]
        /\ UNCHANGED <<bundles, memos_by_action, last, links, stored,
                       normVars, syncVars, treeVars, forestVars, procVars, memoVars, dictVars, editVars>>

\* line 340: state.bundles[bundle_id] = bundle
ConcStoreBundle(t) ==
    /\ th[t].pc = "have_id"
    /\ bundles' = Put(bundles, th[t].bundle_id, th[t].bundle)
    /\ th' = [th EXCEPT ![t].pc = "stored", ![t].stored_at = hist.stores + 1]
    /\ hist' = [hist EXCEPT !.stores = @ + 1]
    /\ UNCHANGED <<memos_by_action, last, links, stored, normVars, syncVars, treeVars, forestVars, procVars, memoVars, dictVars, editVars>>

\* line 341: state.memos_by_action[bundle_id] = bundle.memos
ConcStoreMemos(t) ==
    /\ th[t].pc = "stored"
    /\ memos_by_action' = Put(memos_by_action, th[t].bundle_id, th[t].bundle.memos)
    /\ th' = [th EXCEPT ![t].pc = "indexed"]
    /\ UNCHANGED <<bundles, last, links, stored, hist, normVars, syncVars, treeVars, forestVars, procVars, memoVars, dictVars, editVars>>

\* lines 343-345: save the dataset and answer
ConcSave(t) ==
    /\ th[t].pc = "indexed"
    /\ stored' = save_dataset(bundles, memos_by_action, links)
    /\ th' = [th EXCEPT ![t].pc = "done"]
    /\ last' = [op |-> "create_bundle", id |-> th[t].bundle_id]
    /\ hist' = [hist EXCEPT !.completed = @ + 1]
    /\ UNCHANGED <<bundles, memos_by_action, links, normVars, syncVars, treeVars, forestVars, procVars, memoVars, dictVars, editVars>>

ConcNext ==
    \E t \in Threads :
        \/ ConcReadId(t)
        \/ ConcStoreBundle(t)
        \/ ConcStoreMemos(t)
        \/ ConcSave(t)

SpecConc == ConcInit /\ [][ConcNext]_vars

\* requests that have stored their bundle
HaveStored == {t \in Threads : th[t].pc \in {"stored", "indexed", "done"}}

\* two requests that read the next id with no store in between got one id
C8_SameIdWithoutStoreBetween ==
    \A t \in Threads, u \in Threads :
        /\ th[t].pc # "idle" /\ th[u].pc # "idle"
        /\ th[t].seen = th[u].seen
        => th[t].bundle_id = th[u].bundle_id

\* of two requests that stored under one id the store holds the bundle of
\* the later store at most, so it holds fewer bundles than were stored
C8_SameIdOverwrites ==
    \A t \in HaveStored, u \in HaveStored :
        th[t].bundle_id = th[u].bundle_id /\ th[t].stored_at < th[u].stored_at =>
            /\ Cardinality(DOMAIN bundles) < Cardinality(HaveStored)
            /\ bundles[th[t].bundle_id] # th[t].bundle

\* with no request started while another was in flight every stored bundle
\* is still in the store
C8_SerialLosesNothing ==
    ~hist.overlapped =>
        /\ Cardinality(DOMAIN bundles) = Cardinality(HaveStored)
        /\ \A t \in HaveStored : bundles[th[t].bundle_id] = th[t].bundle

\* C8: two create_bundle requests that both read the next id before either
\* stores get the same id, and the later store replaces the earlier bundle;
\* when every request completes before the next begins no bundle is lost.
C8_ConcurrentCreateLosesBundle ==
    /\ C8_SameIdWithoutStoreBetween
    /\ C8_SameIdOverwrites
    /\ C8_SerialLosesNothing

\* both requests are done, both were given id 1, and the store holds only
\* the bundle of request 2 with the annotations of request 2
C8_Witness ==
    /\ th[1].pc = "done" /\ th[2].pc = "done"
    /\ th[1].bundle_id = 1 /\ th[2].bundle_id = 1
    /\ th[1].bundle.command_text = <<"a", LF, "b">>
    /\ th[2].bundle.command_text = <<"a">>
    /\ DOMAIN bundles = {1}
    /\ bundles[1].bundle_name = "n2"
    /\ memos_by_action[1] = th[2].bundle.memos
    /\ hist.completed = 2

(***************************************************************************)
(* link_tree.parse_tree_file, one loop iteration per step                  *)
(*                                                                         *)
(* t_nodes[1] is the synthetic ROOT; a node records its parent and its     *)
(* children as indices into t_nodes; t_stack holds indices, bottom first.  *)
(***************************************************************************)
\* most lines in the tree file
MaxLines == 4

\* spaces per level (leading_spaces // 4)
IndentUnit == 4

TreeNode(keyword, level) ==
    [keyword |-> keyword, level |-> level, parent |-> 0, children |-> <<>>]

RootNode == TreeNode(<<"R", "O", "O", "T">>, -1)

\* while len(stack) > 1 and stack[-1].level >= level: stack.pop()
RECURSIVE PopStack(_, _, _)
PopStack(nodes, stack, level) ==
    IF Len(stack) > 1 /\ nodes[stack[Len(stack)]].level >= level
    THEN PopStack(nodes, SubSeq(stack, 1, Len(stack) - 1), level)
    ELSE stack

\* a variant that pops only strictly deeper nodes
RECURSIVE PopStackDeeper(_, _, _)
PopStackDeeper(nodes, stack, level) ==
    IF Len(stack) > 1 /\ nodes[stack[Len(stack)]].level > level
    THEN PopStackDeeper(nodes, SubSeq(stack, 1, Len(stack) - 1), level)
    ELSE stack

\* the loop body with a given stack discipline and level
AttachNode(st, keyword, level, stack) ==
    LET parent == stack[Len(stack)]
        child == Len(st.nodes) + 1
        node == [TreeNode(keyword, level) EXCEPT !.parent = parent]
        withChild == [st.nodes EXCEPT ![parent].children = Append(@, child)]
    IN  [nodes |-> Append(withChild, node), stack |-> Append(stack, child)]

\* a variant that pops only strictly deeper nodes, so a sibling becomes a child
parse_line_sibling_as_child(st, line) ==
    LET stripped == rstrip(line)
        level == (Len(line) - Len(lstrip(line))) \div IndentUnit
    IN  IF stripped = <<>> THEN st
        ELSE AttachNode(st, strip(stripped), level,
                        PopStackDeeper(st.nodes, st.stack, level))

\* a variant in which a blank line empties the ancestor stack
parse_line_blank_resets(st, line) ==
    LET stripped == rstrip(line)
        level == (Len(line) - Len(lstrip(line))) \div IndentUnit
    IN  IF stripped = <<>> THEN [nodes |-> st.nodes, stack |-> <<1>>]
        ELSE AttachNode(st, strip(stripped), level,
                        PopStack(st.nodes, st.stack, level))

\* a variant that never pops: the node goes under the top of the stack
parse_line_no_pop(st, line) ==
    LET stripped == rstrip(line)
        level == (Len(line) - Len(lstrip(line))) \div IndentUnit
    IN  IF stripped = <<>> THEN st
        ELSE AttachNode(st, strip(stripped), level, st.stack)

\* one iteration of the for loop (link_tree.py:45-63)
parse_line(st, line) ==
    LET stripped == rstrip(line)
        level == (Len(line) - Len(lstrip(line))) \div IndentUnit
    IN  IF stripped = <<>> THEN st
        ELSE AttachNode(st, strip(stripped), level,
                        PopStack(st.nodes, st.stack, level))

\* the state before the loop: root = TreeNode("ROOT", -1); stack = [root]
ParseStart == [nodes |-> <<RootNode>>, stack |-> <<1>>]

\* the loop over all lines
RECURSIVE ParseAll(_, _)
ParseAll(st, lines) ==
    IF lines = <<>> THEN st ELSE ParseAll(parse_line(st, Head(lines)), Tail(lines))

\* a tree file: file_path.exists() and, when it does, its lines
NoFile == [exists |-> FALSE, lines |-> <<>>]
FileOf(lines) == [exists |-> TRUE, lines |-> lines]

\* a variant that returns a bare root for a missing file instead of None
parse_tree_file_bare_root(file_path) ==
    IF ~file_path.exists THEN [status |-> "tree", nodes |-> <<RootNode>>]
    ELSE [status |-> "tree", nodes |-> ParseAll(ParseStart, file_path.lines).nodes]

\* parse_tree_file: None for a missing file, else the root of the parsed tree
parse_tree_file(file_path) ==
    IF ~file_path.exists THEN [status |-> "none", nodes |-> <<>>]
    ELSE [status |-> "tree", nodes |-> ParseAll(ParseStart, file_path.lines).nodes]

\* a variant that hands out the root itself when there is a tree
build_keyword_tree_root(file_path) ==
    LET root == parse_tree_file(file_path)
    IN  IF root.status = "none" THEN <<>> ELSE <<1>>

\* build_keyword_tree: [] when there is no tree, else the children of the root
build_keyword_tree(file_path) ==
    LET root == parse_tree_file(file_path)
    IN  IF root.status = "none" THEN <<>> ELSE root.nodes[1].children

\* a variant that collects the node and its direct children only
get_all_keywords_children_only(nodes, n) ==
    {nodes[n].keyword}
        \cup {nodes[nodes[n].children[i]].keyword : i \in 1..Len(nodes[n].children)}

\* TreeNode.get_all_keywords: the node's keyword and, recursively, those of
\* its children
RECURSIVE get_all_keywords(_, _)
get_all_keywords(nodes, n) ==
    {nodes[n].keyword}
        \cup UNION {get_all_keywords(nodes, nodes[n].children[i]) :
                       i \in 1..Len(nodes[n].children)}

\* ---- the files explored --------------------------------------------------
Keywords == <<"A", "B", "C", "D", "E", "F">>

Spaces(n) == [i \in 1..n |-> SP]

\* a keyword line with `lead` spaces before and `trail` after, or a line of
\* `lead` spaces only
LineShapes ==
    {[blank |-> FALSE, lead |-> n, trail |-> 0] : n \in {0, 3, 4, 7, 8}}
    \cup {[blank |-> FALSE, lead |-> 4, trail |-> 1]}
    \cup {[blank |-> TRUE, lead |-> n, trail |-> 0] : n \in {0, 5}}

\* the lines of a file: the k-th keyword line carries the k-th keyword
RenderLines(shapes) ==
    [i \in 1..Len(shapes) |->
        IF shapes[i].blank THEN Spaces(shapes[i].lead)
        ELSE Spaces(shapes[i].lead)
             \o <<Keywords[Cardinality({j \in 1..i : ~shapes[j].blank})]>>
             \o Spaces(shapes[i].trail)]

TreeFiles == {RenderLines(shapes) : shapes \in SeqsUpTo(LineShapes, MaxLines)}

TreeInit ==
    /\ t_pc = "parsing" /\ t_lines \in TreeFiles /\ t_i = 0
    /\ t_nodes = ParseStart.nodes /\ t_stack = ParseStart.stack
    /\ NormIdle /\ SyncIdle /\ DataIdle /\ ForestIdle /\ ProcIdle
    /\ MemoIdle /\ DictIdle /\ EditIdle

ParseLine ==
    /\ t_pc = "parsing" /\ t_i < Len(t_lines)
    /\ LET st == parse_line([nodes |-> t_nodes, stack |-> t_stack], t_lines[t_i + 1])
       IN  t_nodes' = st.nodes /\ t_stack' = st.stack
    /\ t_i' = t_i + 1
    /\ UNCHANGED <<t_pc, t_lines, normVars, syncVars, dataVars, forestVars, procVars, memoVars, dictVars, editVars>>

\* return root
ParseReturn ==
    /\ t_pc = "parsing" /\ t_i = Len(t_lines)
    /\ t_pc' = "done"
    /\ UNCHANGED <<t_lines, t_i, t_nodes, t_stack, normVars, syncVars, dataVars, forestVars, procVars, memoVars, dictVars, editVars>>

TreeNext == ParseLine \/ ParseReturn

SpecTree == TreeInit /\ [][TreeNext]_vars

\* ---- the file seen without the parser ------------------------------------
IsBlankLine(line) == \A i \in 1..Len(line) : line[i] \in Whitespace

\* leading whitespace characters of a line
LeadCount(line) ==
    Cardinality({i \in 1..Len(line) : \A j \in 1..i : line[j] \in Whitespace})

\* the indices of the non-blank lines, ascending
NonBlankIdx(lines) == SortedKeys({i \in 1..Len(lines) : ~IsBlankLine(lines[i])})

\* the line the node n >= 2 was created from
LineOfNode(n) == t_lines[NonBlankIdx(t_lines)[n - 1]]

DepthOfNode(n) == LeadCount(LineOfNode(n)) \div 4

\* C9: in the finished tree the parent of each line's node is the node of the
\* nearest preceding non-blank line of strictly smaller depth, or the root
\* when there is none, and each node's children are in line order.
C9_ParentIsNearestShallowerLine ==
    t_pc = "done" =>
        /\ Len(t_nodes) = 1 + Len(NonBlankIdx(t_lines))
        /\ \A n \in 2..Len(t_nodes) :
              LET shallower == {m \in 2..(n - 1) : DepthOfNode(m) < DepthOfNode(n)}
              IN  t_nodes[n].parent = IF shallower = {} THEN 1 ELSE MaxOf(shallower)
        /\ \A n \in 1..Len(t_nodes) :
              t_nodes[n].children =
                  SortedKeys({m \in 2..Len(t_nodes) : t_nodes[m].parent = n})

\* "A / 4sp B / 8sp C / 4sp D": top level [A], A.children = [B, D],
\* B.children = [C]
C9_Witness ==
    /\ t_pc = "done"
    /\ t_lines = << <<"A">>, Spaces(4) \o <<"B">>, Spaces(8) \o <<"C">>,
                    Spaces(4) \o <<"D">> >>
    /\ build_keyword_tree(FileOf(t_lines)) = <<2>>
    /\ t_nodes[2].keyword = <<"A">> /\ t_nodes[2].children = <<3, 5>>
    /\ t_nodes[3].keyword = <<"B">> /\ t_nodes[3].children = <<4>>
    /\ t_nodes[4].keyword = <<"C">> /\ t_nodes[5].keyword = <<"D">>

\* the lines read so far, without the blank ones
NonBlankRead ==
    SelectSeq(SubSeq(t_lines, 1, t_i), LAMBDA line : ~IsBlankLine(line))

\* C10: blank and whitespace-only lines create no node and leave the stack
\* and the tree as they are, so the nodes and the stack after any number of
\* lines are those of the same lines without the blank ones; the level of a
\* node is its line's leading whitespace count divided by 4, rounded down.
C10_BlankLinesSkippedDepthRoundsDown ==
    /\ [nodes |-> t_nodes, stack |-> t_stack] = ParseAll(ParseStart, NonBlankRead)
    /\ Len(t_nodes) = 1 + Len(NonBlankRead)
    /\ \A n \in 2..Len(t_nodes) :
          LET lead == LeadCount(LineOfNode(n))
          IN  /\ IndentUnit * t_nodes[n].level <= lead
              /\ lead < IndentUnit * (t_nodes[n].level + 1)

\* A, a line of 5 spaces, B after 7 spaces (depth 1), C after 3 (depth 0)
C10_Witness ==
    /\ t_pc = "done"
    /\ t_lines = << <<"A">>, Spaces(5), Spaces(7) \o <<"B">>, Spaces(3) \o <<"C">> >>
    /\ Len(t_nodes) = 4
    /\ t_nodes[3].level = 1 /\ t_nodes[3].parent = 2
    /\ t_nodes[4].level = 0 /\ t_nodes[4].parent = 1

(***************************************************************************)
(* One reading of a tree file: build_keyword_tree, then get_all_keywords   *)
(* on a node, or the keyword collection of the procedure page              *)
(* (main.manage_links_page)                                                *)
(***************************************************************************)
ForestFiles == {NoFile} \cup {FileOf(lines) : lines \in TreeFiles}

ForestInit ==
    /\ f_pc = "start" /\ f_file \in ForestFiles
    /\ f_root = [status |-> "unset", nodes |-> <<>>] /\ f_forest = <<>>
    /\ f_node = 0 /\ f_keywords = {}
    /\ NormIdle /\ SyncIdle /\ DataIdle /\ TreeIdle /\ ProcIdle
    /\ MemoIdle /\ DictIdle /\ EditIdle

\* tree_nodes = build_keyword_tree(path), which calls parse_tree_file
BuildKeywordTree ==
    /\ f_pc = "start"
    /\ f_root' = parse_tree_file(f_file)
    /\ f_forest' = build_keyword_tree(f_file)
    /\ f_pc' = "built"
    /\ UNCHANGED <<f_file, f_node, f_keywords,
                   normVars, syncVars, dataVars, treeVars, procVars, memoVars, dictVars, editVars>>

\* node.get_all_keywords() on any node of the tree, the root included
GetAllKeywords ==
    /\ f_pc = "built"
    /\ \E n \in 1..Len(f_root.nodes) :
          /\ f_node' = n
          /\ f_keywords' = get_all_keywords(f_root.nodes, n)
    /\ f_pc' = "queried"
    /\ UNCHANGED <<f_file, f_root, f_forest,
                   normVars, syncVars, dataVars, treeVars, procVars, memoVars, dictVars, editVars>>

\* for node in tree_nodes: all_keywords.update(node.get_all_keywords())
ManageLinksKeywords ==
    /\ f_pc = "built"
    /\ f_keywords' = UNION {get_all_keywords(f_root.nodes, f_forest[i]) :
                               i \in 1..Len(f_forest)}
    /\ f_pc' = "collected"
    /\ UNCHANGED <<f_file, f_root, f_forest, f_node,
                   normVars, syncVars, dataVars, treeVars, procVars, memoVars, dictVars, editVars>>

ForestNext == BuildKeywordTree \/ GetAllKeywords \/ ManageLinksKeywords

SpecForest == ForestInit /\ [][ForestNext]_vars

\* the proper ancestors of node m, by the parent back-references
RECURSIVE AncestorsOf(_, _)
AncestorsOf(nodes, m) ==
    IF nodes[m].parent = 0 THEN {}
    ELSE {nodes[m].parent} \cup AncestorsOf(nodes, nodes[m].parent)

\* the node n and its descendants
SubtreeOf(nodes, n) == {m \in 1..Len(nodes) : m = n \/ n \in AncestorsOf(nodes, m)}

\* C11: get_all_keywords on a node returns exactly the keywords of the node
\* and of its descendants; in a tree of pairwise distinct labels no keyword
\* of a node outside the subtree (ancestor, sibling, cousin) is in the set.
C11_KeywordsOfNodeAndDescendants ==
    f_pc = "queried" =>
        /\ f_keywords = {f_root.nodes[m].keyword : m \in SubtreeOf(f_root.nodes, f_node)}
        /\ \A m \in 1..Len(f_root.nodes) :
              m \notin SubtreeOf(f_root.nodes, f_node) =>
                  f_root.nodes[m].keyword \notin f_keywords

\* "A / 4sp B / 8sp C / 4sp D" asked at B: {B, C}, without A and D
C11_Witness ==
    /\ f_pc = "queried"
    /\ f_file.lines = << <<"A">>, Spaces(4) \o <<"B">>, Spaces(8) \o <<"C">>,
                         Spaces(4) \o <<"D">> >>
    /\ f_root.nodes[f_node].keyword = <<"B">>
    /\ f_keywords = {<<"B">>, <<"C">>}

\* C17: for a tree file that does not exist parse_tree_file returns None and
\* build_keyword_tree the empty forest, so there is no node to ask for its
\* keywords and the keyword collection over the forest is empty.
C17_MissingFileGivesEmptyForest ==
    (f_pc # "start" /\ ~f_file.exists) =>
        /\ f_root = [status |-> "none", nodes |-> <<>>]
        /\ f_forest = <<>>
        /\ f_pc # "queried"
        /\ f_pc = "collected" => f_keywords = {}

\* the procedure page has collected the keywords of a missing tree file
C17_Witness ==
    /\ f_pc = "collected" /\ f_file = NoFile
    /\ f_root.status = "none" /\ f_forest = <<>> /\ f_keywords = {}

(***************************************************************************)
(* The tagged record table (link_tree.py): records are dicts with keys     *)
(* among code, title, link, tag; a result is the returned list, or the     *)
(* exception that ended the call                                           *)
(***************************************************************************)
\* most records in the table
MaxRecords == 2

\* entry.get(key, "")
EntryGet(entry, key) == IF key \in DOMAIN entry THEN entry[key] ELSE <<>>

Returned(rows) == [raised |-> FALSE, rows |-> rows]
Raised == [raised |-> TRUE, rows |-> <<>>]

\* str.lower on the letters explored
LowerChar(c) == IF c = "A" THEN "a" ELSE IF c = "B" THEN "b" ELSE c
lower(s) == [i \in 1..Len(s) |-> LowerChar(s[i])]

\* needle in hay, on strings
Contains(hay, needle) ==
    \E i \in 1..(Len(hay) - Len(needle) + 1) :
        SubSeq(hay, i, i + Len(needle) - 1) = needle

\* the loop of get_procedures_by_tag
RECURSIVE ByTagLoop(_, _, _)
ByTagLoop(results, tagged_entries, keyword_set) ==
    IF tagged_entries = <<>> THEN results
    ELSE ByTagLoop(IF EntryGet(Head(tagged_entries), "tag") \in keyword_set
                   THEN Append(results, Head(tagged_entries)) ELSE results,
                   Tail(tagged_entries), keyword_set)

\* a variant that reads entry["tag"]: KeyError on a record without a tag
get_procedures_by_tag_subscript(tagged_entries, keyword_set) ==
    IF \E i \in 1..Len(tagged_entries) : "tag" \notin DOMAIN tagged_entries[i]
    THEN Raised
    ELSE Returned(ByTagLoop(<<>>, tagged_entries, keyword_set))

\* a variant that lists each matching record once
get_procedures_by_tag_once(tagged_entries, keyword_set) ==
    LET rows == ByTagLoop(<<>>, tagged_entries, keyword_set)
    IN  Returned(SelectSeq([i \in 1..Len(rows) |->
                              IF \E j \in 1..(i - 1) : rows[j] = rows[i]
                              THEN <<>> ELSE <<rows[i]>>],
                           LAMBDA r : r # <<>>))

get_procedures_by_tag(tagged_entries, keyword_set) ==
    Returned(ByTagLoop(<<>>, tagged_entries, keyword_set))

\* the loop of search_procedures_by_title
RECURSIVE ByTitleLoop(_, _, _)
ByTitleLoop(results, tagged_entries, query_lower) ==
    IF tagged_entries = <<>> THEN results
    ELSE ByTitleLoop(IF Contains(lower(EntryGet(Head(tagged_entries), "title")),
                                 query_lower)
                     THEN Append(results, Head(tagged_entries)) ELSE results,
                     Tail(tagged_entries), query_lower)

\* a variant without the early return: None has no lower(), "" is in
\* every title
search_procedures_by_title_no_guard(tagged_entries, query) ==
    IF query.none THEN Raised
    ELSE Returned(ByTitleLoop(<<>>, tagged_entries, lower(query.s)))

\* a variant that lowers the query only
search_procedures_by_title_exact(tagged_entries, query) ==
    IF ~Truthy(query) THEN Returned(<<>>)
    ELSE Returned(SelectSeq(tagged_entries,
                            LAMBDA e : Contains(EntryGet(e, "title"), lower(query.s))))

search_procedures_by_title(tagged_entries, query) ==
    IF ~Truthy(query) THEN Returned(<<>>)
    ELSE Returned(ByTitleLoop(<<>>, tagged_entries, lower(query.s)))

\* ---- the calls explored --------------------------------------------------
ProcTitles == { <<>>, <<"A", "b">>, <<"b", "a">> }
ProcTags == { <<>>, <<"A">>, <<"B">>, <<"Z">> }

\* records with every field, and records that lack the tag, the title or
\* every field
ProcRecords ==
    {[code |-> <<"c">>, title |-> t, link |-> <<"u">>, tag |-> g] :
        t \in ProcTitles, g \in ProcTags}
    \cup { [code |-> <<"c">>, title |-> <<"A", "b">>, link |-> <<"u">>],
           [code |-> <<"c">>, link |-> <<"u">>, tag |-> <<"A">>],
           EmptyMap }

ProcLists == SeqsUpTo(ProcRecords, MaxRecords)

KeywordSets == SUBSET { <<>>, <<"A">>, <<"B">> }

Queries ==
    {NoneText} \cup {Str(q) : q \in { <<>>, <<"a">>, <<"B">>, <<"a", "b">>,
                                      <<"A", "B">>, <<"b", "b">> }}

ProcArgs ==
    {[kind |-> "tags", keys |-> K, query |-> NoneText] : K \in KeywordSets}
    \cup {[kind |-> "query", keys |-> {}, query |-> q] : q \in Queries}

ProcInit ==
    /\ p_pc = "start" /\ p_entries \in ProcLists /\ p_arg \in ProcArgs
    /\ p_csv = [exists |-> FALSE, text |-> <<>>] /\ p_out = Returned(<<>>)
    /\ NormIdle /\ SyncIdle /\ DataIdle /\ TreeIdle /\ ForestIdle
    /\ MemoIdle /\ DictIdle /\ EditIdle

GetProceduresByTag ==
    /\ p_pc = "start" /\ p_arg.kind = "tags"
    /\ p_out' = get_procedures_by_tag(p_entries, p_arg.keys)
    /\ p_pc' = "by_tag"
    /\ UNCHANGED <<p_entries, p_arg, p_csv,
                   normVars, syncVars, dataVars, treeVars, forestVars, memoVars, dictVars, editVars>>

SearchProceduresByTitle ==
    /\ p_pc = "start" /\ p_arg.kind = "query"
    /\ p_out' = search_procedures_by_title(p_entries, p_arg.query)
    /\ p_pc' = "by_title"
    /\ UNCHANGED <<p_entries, p_arg, p_csv,
                   normVars, syncVars, dataVars, treeVars, forestVars, memoVars, dictVars, editVars>>

ProcNext == GetProceduresByTag \/ SearchProceduresByTitle

SpecProc == ProcInit /\ [][ProcNext]_vars

\* the positions of the records whose tag is in the keyword set, ascending
TagMatches == SortedKeys({i \in 1..Len(p_entries) :
                             EntryGet(p_entries[i], "tag") \in p_arg.keys})

C12_ResultIsMatchingSubsequence ==
    p_pc = "by_tag" =>
        /\ ~p_out.raised
        /\ p_out.rows = [k \in 1..Len(TagMatches) |-> p_entries[TagMatches[k]]]

\* C12: get_procedures_by_tag returns the records whose tag is in the keyword
\* set, each as often as it occurs and in input order, and the call leaves
\* the record list as it was.
C12_TagFilterReturnsSubsequence ==
    /\ []C12_ResultIsMatchingSubsequence
    /\ [][p_entries' = p_entries]_vars

\* records tagged A and Z filtered by {A, B}: the first record only
C12_Witness ==
    /\ p_pc = "by_tag"
    /\ p_arg.keys = { <<"A">>, <<"B">> }
    /\ Len(p_entries) = 2
    /\ EntryGet(p_entries[1], "tag") = <<"A">>
    /\ EntryGet(p_entries[2], "tag") = <<"Z">>
    /\ p_out.rows = <<p_entries[1]>>

\* the same letter, whatever the case
SameLetter(c, d) == c = d \/ {c, d} \in { {"a", "A"}, {"b", "B"} }

\* q occurs in title at some offset, letters compared without case
TitleHas(title, q) ==
    \E off \in 0..(Len(title) - Len(q)) :
        \A k \in 1..Len(q) : SameLetter(title[off + k], q[k])

TitleMatches == SortedKeys({i \in 1..Len(p_entries) :
                               TitleHas(EntryGet(p_entries[i], "title"), p_arg.query.s)})

\* C13: search_procedures_by_title returns, in input order, the records whose
\* title contains the query when case is ignored; for an empty query it
\* returns the empty list, whatever the records.
C13_TitleSearchIgnoresCaseEmptyQueryFindsNothing ==
    p_pc = "by_title" =>
        /\ ~p_out.raised
        /\ p_arg.query.s # <<>> =>
              p_out.rows = [k \in 1..Len(TitleMatches) |-> p_entries[TitleMatches[k]]]
        /\ p_arg.query = Str(<<>>) => p_out.rows = <<>>

\* query "AB" on titles "Ab" and "ba": the first record only
C13_Witness ==
    /\ p_pc = "by_title"
    /\ p_arg.query = Str(<<"A", "B">>)
    /\ Len(p_entries) = 2
    /\ EntryGet(p_entries[1], "title") = <<"A", "b">>
    /\ EntryGet(p_entries[2], "title") = <<"b", "a">>
    /\ p_out.rows = <<p_entries[1]>>

\* a record with its absent fields filled with ""
WithDefaults(entry) ==
    [k \in {"code", "title", "link", "tag"} |-> EntryGet(entry, k)]

AllWithDefaults(entries) == [i \in 1..Len(entries) |-> WithDefaults(entries[i])]

\* C16: neither filter raises; an empty record list, an empty keyword set and
\* an empty or None query give []; a record without a tag (title) is selected
\* exactly when the same record with tag "" (title "") is.
C16_FiltersReturnEmptyOnEmptyInput ==
    p_pc \in {"by_tag", "by_title"} =>
        /\ ~p_out.raised
        /\ p_entries = <<>> => p_out.rows = <<>>
        /\ p_pc = "by_tag" =>
              /\ p_arg.keys = {} => p_out.rows = <<>>
              /\ AllWithDefaults(p_out.rows)
                   = get_procedures_by_tag(AllWithDefaults(p_entries), p_arg.keys).rows
        /\ p_pc = "by_title" =>
              /\ ~Truthy(p_arg.query) => p_out.rows = <<>>
              /\ AllWithDefaults(p_out.rows)
                   = search_procedures_by_title(AllWithDefaults(p_entries),
                                                p_arg.query).rows

\* a record without a tag is selected by a keyword set that holds "" and the
\* record without any field is selected with it
C16_Witness ==
    /\ p_pc = "by_tag"
    /\ p_arg.keys = { <<>> }
    /\ p_entries = << [code |-> <<"c">>, title |-> <<"A", "b">>, link |-> <<"u">>],
                      EmptyMap >>
    /\ p_out = Returned(p_entries)

(***************************************************************************)
(* The table file (link_tree.save_tagged_database / load_tagged_database): *)
(* csv.DictWriter and csv.DictReader in the default dialect, on a file     *)
(* opened with encoding utf-8-sig and newline=""                           *)
(***************************************************************************)
QUOTE == "\""
\* the byte order mark utf-8-sig writes first and skips on reading
BOM == "BOM"
\* the column names "코드" and "제목", each taken as one symbol
KO_CODE == "KO_CODE"
KO_TITLE == "KO_TITLE"

\* csv.writer, QUOTE_MINIMAL: a field holding the delimiter, the quote
\* character or a line-terminator character is quoted, its quotes doubled
csv_field(field) ==
    IF \E i \in 1..Len(field) : field[i] \in {COMMA, QUOTE, CR, LF}
    THEN <<QUOTE>>
         \o Concat([i \in 1..Len(field) |->
                      IF field[i] = QUOTE THEN <<QUOTE, QUOTE>> ELSE <<field[i]>>])
         \o <<QUOTE>>
    ELSE field

\* writer.writerow: the fields joined by "," and ended by "\r\n"
csv_row(fields) ==
    join([i \in 1..Len(fields) |-> csv_field(fields[i])], <<COMMA>>) \o <<CR, LF>>

csv_rows(rows) == Concat([i \in 1..Len(rows) |-> csv_row(rows[i])])

\* ---- csv.reader: the parser state after one character ----------------------
SaveField(st) == [st EXCEPT !.row = Append(st.row, st.field), !.field = <<>>]
AddChar(st, c) == [st EXCEPT !.field = Append(st.field, c)]
ToMode(st, mode) == [st EXCEPT !.mode = mode]

ParseProcessChar(st, c) ==
    LET nl == c \in {CR, LF}
        mode == IF st.mode = "start_record" /\ ~nl THEN "start_field" ELSE st.mode
    IN  CASE mode = "start_record" -> ToMode(st, "eat_crnl")
          [] mode = "start_field" ->
                IF nl THEN ToMode(SaveField(st), "eat_crnl")
                ELSE IF c = QUOTE THEN ToMode(st, "in_quoted_field")
                ELSE IF c = COMMA THEN ToMode(SaveField(st), "start_field")
                ELSE ToMode(AddChar(st, c), "in_field")
          [] mode = "in_field" ->
                IF nl THEN ToMode(SaveField(st), "eat_crnl")
                ELSE IF c = COMMA THEN ToMode(SaveField(st), "start_field")
                ELSE AddChar(st, c)
          [] mode = "in_quoted_field" ->
                IF c = QUOTE THEN ToMode(st, "quote_in_quoted_field")
                ELSE AddChar(st, c)
          [] mode = "quote_in_quoted_field" ->
                IF c = QUOTE THEN ToMode(AddChar(st, c), "in_quoted_field")
                ELSE IF c = COMMA THEN ToMode(SaveField(st), "start_field")
                ELSE IF nl THEN ToMode(SaveField(st), "eat_crnl")
                ELSE ToMode(AddChar(st, c), "in_field")
          [] OTHER -> st

\* the end of a line: an open field is saved and the record is complete,
\* unless a quoted field is open
ParseProcessEOL(st) ==
    IF st.mode = "in_quoted_field" THEN st
    ELSE IF st.mode \in {"start_field", "in_field", "quote_in_quoted_field"}
    THEN ToMode(SaveField(st), "start_record")
    ELSE ToMode(st, "start_record")

\* one line of the file fed to the parser, then its end
RECURSIVE FeedLine(_, _, _)
FeedLine(st, line, i) ==
    IF i > Len(line) THEN ParseProcessEOL(st)
    ELSE FeedLine(ParseProcessChar(st, line[i]), line, i + 1)

\* the file iterator with newline="": a line ends after LF, or after a CR
\* that no LF follows, or at the end of the file
FileLines(text) ==
    LET ends == SortedKeys({i \in 1..Len(text) :
                               \/ i = Len(text)
                               \/ text[i] = LF
                               \/ text[i] = CR /\ text[i + 1] # LF})
    IN  [k \in 1..Len(ends) |->
            SubSeq(text, IF k = 1 THEN 1 ELSE ends[k - 1] + 1, ends[k])]

\* Reader.__next__: lines are fed until a record is complete; the end of
\* the file completes a record whose quoted field is still open
RECURSIVE ReaderNext(_, _, _)
ReaderNext(st, lines, k) ==
    IF k > Len(lines) THEN [row |-> SaveField(st).row, next |-> k]
    ELSE LET after == FeedLine(st, lines[k], 1)
         IN  IF after.mode = "start_record" THEN [row |-> after.row, next |-> k + 1]
             ELSE ReaderNext(after, lines, k + 1)

RECURSIVE ReadRecords(_, _, _)
ReadRecords(rows, lines, k) ==
    IF k > Len(lines) THEN rows
    ELSE LET rec == ReaderNext([mode |-> "start_record", field |-> <<>>, row |-> <<>>],
                               lines, k)
         IN  ReadRecords(Append(rows, rec.row), lines, rec.next)

\* csv.reader over the whole file: the rows, each a list of fields
csv_reader(text) == ReadRecords(<<>>, FileLines(text), 1)

\* csv.DictReader: the first row names the columns; each later non-empty row
\* becomes a dict, a column the row is too short for holding None
DictReader(rows) ==
    IF rows = <<>> THEN <<>>
    ELSE LET fieldnames == Head(rows)
             data == SelectSeq(Tail(rows), LAMBDA row : row # <<>>)
             cols == {fieldnames[k] : k \in 1..Len(fieldnames)}
             at(name) == CHOOSE k \in 1..Len(fieldnames) :
                            /\ fieldnames[k] = name
                            /\ \A j \in 1..Len(fieldnames) : fieldnames[j] = name => j <= k
         IN  [r \in 1..Len(data) |->
                [name \in cols |->
                    IF at(name) <= Len(data[r]) THEN Str(data[r][at(name)])
                    ELSE NoneText]]

\* row.get(key, default) on a DictReader row
RowGet(row, key, default) == IF key \in DOMAIN row THEN row[key] ELSE default

\* the four values load_tagged_database reads off a row, before .strip()
RowValues(row) ==
    [code |-> RowGet(row, <<KO_CODE>>, RowGet(row, <<"code">>, Str(<<>>))),
     title |-> RowGet(row, <<KO_TITLE>>, RowGet(row, <<"title">>, Str(<<>>))),
     link |-> RowGet(row, <<"link">>, RowGet(row, <<"url">>, Str(<<>>))),
     tag |-> RowGet(row, <<"tag">>, Str(<<>>))]

\* a table file: csv_path.exists() and the characters in the file
NoTable == [exists |-> FALSE, text |-> <<>>]
TableOf(text) == [exists |-> TRUE, text |-> text]

\* open(..., encoding="utf-8-sig"): the mark is skipped when it is there
DecodeSig(text) == IF text # <<>> /\ Head(text) = BOM THEN Tail(text) ELSE text

\* a variant that keeps the fields as read (no .strip())
load_tagged_database_unstripped(csv_path) ==
    IF ~csv_path.exists THEN Returned(<<>>)
    ELSE LET rows == DictReader(csv_reader(DecodeSig(csv_path.text)))
             vals == [r \in 1..Len(rows) |-> RowValues(rows[r])]
         IN  IF \E r \in 1..Len(vals) :
                   \E k \in {"code", "title", "link", "tag"} : vals[r][k].none
             THEN Raised
             ELSE Returned([r \in 1..Len(vals) |->
                              [k \in {"code", "title", "link", "tag"} |-> vals[r][k].s]])

\* load_tagged_database: [] for a missing file; None.strip() raises on a row
\* that is shorter than the header
load_tagged_database(csv_path) ==
    IF ~csv_path.exists THEN Returned(<<>>)
    ELSE LET rows == DictReader(csv_reader(DecodeSig(csv_path.text)))
             vals == [r \in 1..Len(rows) |-> RowValues(rows[r])]
         IN  IF \E r \in 1..Len(vals) :
                   \E k \in {"code", "title", "link", "tag"} : vals[r][k].none
             THEN Raised
             ELSE Returned([r \in 1..Len(vals) |->
                              [k \in {"code", "title", "link", "tag"} |->
                                  strip(vals[r][k].s)]])

\* the header save_tagged_database writes
TableHeader == << <<KO_CODE>>, <<KO_TITLE>>, <<"link">>, <<"tag">> >>

\* a variant that writes the columns of the export format (no tag column)
save_tagged_database_no_tag(entries) ==
    TableOf(<<BOM>>
            \o csv_row(<< <<KO_CODE>>, <<KO_TITLE>>, <<"link">> >>)
            \o csv_rows([i \in 1..Len(entries) |->
                           << EntryGet(entries[i], "code"), EntryGet(entries[i], "title"),
                              EntryGet(entries[i], "link") >>]))

\* save_tagged_database: the file after the call
save_tagged_database(entries) ==
    TableOf(<<BOM>>
            \o csv_row(TableHeader)
            \o csv_rows([i \in 1..Len(entries) |->
                           << EntryGet(entries[i], "code"), EntryGet(entries[i], "title"),
                              EntryGet(entries[i], "link"), EntryGet(entries[i], "tag") >>]))

(***************************************************************************)
(* The table saved and loaded back, and a table file loaded, saved and     *)
(* loaded again                                                            *)
(***************************************************************************)
\* most data rows in the table
MaxRows == 2

TaggedRecord(code, title, link, tag) ==
    [code |-> code, title |-> title, link |-> link, tag |-> tag]

\* field values without leading or trailing whitespace: plain, empty, with
\* the delimiter, quotes, an inner line break or an inner space
CleanFields ==
    { <<>>, <<"a">>, <<"a", COMMA, "b">>, <<QUOTE, "a">>, <<"a", LF, "b">>,
      <<"a", CR, "b">>, <<"a", SP, "b">>, <<QUOTE, QUOTE>> }

CleanRecords ==
    {TaggedRecord(f, <<"t">>, <<"u">>, <<>>) : f \in CleanFields}
    \cup {TaggedRecord(<<"c">>, f, <<>>, g) :
             f \in { <<"a", COMMA, "b">>, <<QUOTE>> }, g \in { <<"a", LF, "b">>, <<"A">> }}
    \cup {TaggedRecord(<<>>, <<>>, <<>>, <<>>)}

CleanLists == SeqsUpTo(CleanRecords, MaxRows)

\* rows of a table file written by other means: padded fields, short rows
RawRows ==
    { << <<SP, "a">>, <<"t", SP>>, <<"u">>, <<SP>> >>,
      << <<LF, "a", CR>>, <<"a", SP, "b">>, <<>>, <<"A", LF>> >>,
      << <<"c">>, <<QUOTE, SP>>, <<"u">>, <<"B">> >>,
      << <<"c">>, <<"t">> >>,
      << <<"c">>, <<"t">>, <<"u">>, <<"A">>, <<"x">> >> }

TableHeaders ==
    { TableHeader,
      << <<"code">>, <<"title">>, <<"url">>, <<"tag">> >>,
      << <<"tag">>, <<"title">>, <<KO_CODE>> >> }

\* files with and without the mark, with CR LF and with bare LF line ends
TableFiles ==
    {NoTable, TableOf(<<>>)}
    \cup {TableOf(mark \o csv_row(h) \o csv_rows(rows)) :
             mark \in {<<>>, <<BOM>>}, h \in TableHeaders,
             rows \in SeqsUpTo(RawRows, MaxRows)}
    \cup {TableOf(RemoveChar(csv_row(h) \o csv_rows(rows), CR)) :
             h \in TableHeaders, rows \in SeqsUpTo(RawRows, 1)}

TableInit ==
    /\ \/ p_pc = "start" /\ p_entries \in CleanLists /\ p_csv = NoTable
       \/ p_pc = "file" /\ p_entries = <<>> /\ p_csv \in TableFiles
    /\ p_arg = [kind |-> "none", keys |-> {}, query |-> NoneText]
    /\ p_out = Returned(<<>>)
    /\ NormIdle /\ SyncIdle /\ DataIdle /\ TreeIdle /\ ForestIdle
    /\ MemoIdle /\ DictIdle /\ EditIdle

\* save_tagged_database(path, records): of the given records, or of the
\* records a load has just returned
SaveTaggedDatabase ==
    /\ \/ p_pc = "start" /\ p_pc' = "saved" /\ p_entries' = p_entries
       \/ p_pc = "loaded_file" /\ ~p_out.raised
          /\ p_pc' = "resaved" /\ p_entries' = p_out.rows
    /\ p_csv' = save_tagged_database(p_entries')
    /\ UNCHANGED <<p_arg, p_out, normVars, syncVars, dataVars, treeVars, forestVars, memoVars, dictVars, editVars>>

\* load_tagged_database(path)
LoadTaggedDatabase ==
    /\ p_pc \in {"saved", "file", "resaved"}
    /\ p_pc' = CASE p_pc = "saved" -> "loaded"
                 [] p_pc = "file" -> "loaded_file"
                 [] OTHER -> "reloaded"
    /\ p_out' = load_tagged_database(p_csv)
    /\ UNCHANGED <<p_entries, p_arg, p_csv,
                   normVars, syncVars, dataVars, treeVars, forestVars, memoVars, dictVars, editVars>>

TableNext == SaveTaggedDatabase \/ LoadTaggedDatabase

SpecTable == TableInit /\ [][TableNext]_vars

\* every field of every returned record has no whitespace at either end
FieldsStripped(rows) ==
    \A r \in 1..Len(rows) :
        /\ DOMAIN rows[r] = {"code", "title", "link", "tag"}
        /\ \A k \in DOMAIN rows[r] :
              rows[r][k] = <<>>
              \/ (~IsSpace(rows[r][k][1]) /\ ~IsSpace(rows[r][k][Len(rows[r][k])]))

\* C15: records whose fields have no whitespace at either end come back from
\* save_tagged_database followed by load_tagged_database unchanged and in
\* order; whenever load_tagged_database returns, every field is stripped,
\* and saving what it returned and loading again returns the same records.
C15_TableRoundTrips ==
    /\ p_pc = "loaded" => p_out = Returned(p_entries)
    /\ (p_pc \in {"loaded", "loaded_file", "reloaded"} /\ ~p_out.raised) =>
          FieldsStripped(p_out.rows)
    /\ p_pc = "reloaded" => p_out = Returned(p_entries)

\* a record with a quote and a comma in its title and a line break in its
\* tag, after one with a CR inside its code, has come back from the file
C15_Witness ==
    /\ p_pc = "loaded"
    /\ p_entries = << TaggedRecord(<<"a", CR, "b">>, <<"t">>, <<"u">>, <<>>),
                      TaggedRecord(<<"c">>, <<"a", COMMA, "b">>, <<>>, <<"a", LF, "b">>) >>
    /\ p_out.rows = p_entries


(***************************************************************************)
(* The ancestor stack of parse_tree_file and the shape of the tree         *)
(***************************************************************************)
\* the nodes met walking down from node n through the children lists
RECURSIVE Preorder(_, _)
Preorder(nodes, n) ==
    <<n>> \o Concat([i \in 1..Len(nodes[n].children) |->
                       Preorder(nodes, nodes[n].children[i])])

\* the places (p, i) where node n is listed as the i-th child of p
ListedAt(nodes, n) ==
    {pi \in (1..Len(nodes)) \X (1..Len(nodes)) :
        /\ pi[2] <= Len(nodes[pi[1]].children)
        /\ nodes[pi[1]].children[pi[2]] = n}

\* C22: while parse_tree_file runs the stack has the synthetic root at the
\* bottom and nowhere else, and levels strictly increase from bottom to top;
\* in the tree every node made from a line is deeper than its parent, is
\* listed as a child exactly once, by its parent, and is met exactly once
\* walking down from the root.
C22_StackRootedAndStrictlyDeeper ==
    /\ t_stack # <<>> /\ t_stack[1] = 1
    /\ \A i \in 2..Len(t_stack) : t_stack[i] # 1
    /\ \A i \in 1..(Len(t_stack) - 1) :
          t_nodes[t_stack[i]].level < t_nodes[t_stack[i + 1]].level
    /\ \A n \in 2..Len(t_nodes) :
          /\ t_nodes[n].parent \in 1..Len(t_nodes)
          /\ t_nodes[n].level > t_nodes[t_nodes[n].parent].level
          /\ Cardinality(ListedAt(t_nodes, n)) = 1
          /\ \A pi \in ListedAt(t_nodes, n) : pi[1] = t_nodes[n].parent
    /\ ListedAt(t_nodes, 1) = {}
    /\ LET walk == Preorder(t_nodes, 1)
       IN  /\ Len(walk) = Len(t_nodes)
           /\ {walk[i] : i \in 1..Len(walk)} = 1..Len(t_nodes)

\* a chain A, B, C three deep, then D back at depth 0: the stack was popped
\* down to the root and holds the root and D
C22_Witness ==
    /\ t_pc = "done" /\ Len(t_nodes) = 5
    /\ t_nodes[3].parent = 2 /\ t_nodes[4].parent = 3 /\ t_nodes[5].parent = 1
    /\ t_nodes[4].level = 2
    /\ t_stack = <<1, 5>>

(***************************************************************************)
(* link_tree.tree_node_to_dict on the nodes build_keyword_tree returns     *)
(* (main.read_home: [tree_node_to_dict(node, tagged_database) for node in  *)
(* tree_nodes])                                                            *)
(***************************************************************************)
\* a variant that matches the node's own keyword only
RECURSIVE tree_node_to_dict_own_keyword(_, _, _)
tree_node_to_dict_own_keyword(nodes, n, tagged_entries) ==
    [keyword |-> nodes[n].keyword,
     level |-> nodes[n].level,
     procedures |-> get_procedures_by_tag(tagged_entries, {nodes[n].keyword}).rows,
     children |-> [i \in 1..Len(nodes[n].children) |->
                     tree_node_to_dict_own_keyword(nodes, nodes[n].children[i],
                                                   tagged_entries)]]

RECURSIVE tree_node_to_dict(_, _, _)
tree_node_to_dict(nodes, n, tagged_entries) ==
    LET keyword_set == get_all_keywords(nodes, n)
        procedures == get_procedures_by_tag(tagged_entries, keyword_set).rows
    IN  [keyword |-> nodes[n].keyword,
         level |-> nodes[n].level,
         procedures |-> procedures,
         children |-> [i \in 1..Len(nodes[n].children) |->
                         tree_node_to_dict(nodes, nodes[n].children[i], tagged_entries)]]

\* most lines of the tree file and most records of the table
MaxDictLines == 3
MaxDictRecords == 2

DictShapes ==
    {[blank |-> FALSE, lead |-> n, trail |-> 0] : n \in {0, 4, 8}}
    \cup {[blank |-> TRUE, lead |-> 0, trail |-> 0]}

DictFiles ==
    {NoFile} \cup {FileOf(RenderLines(shapes)) : shapes \in SeqsUpTo(DictShapes, MaxDictLines)}

\* records tagged with a keyword of the tree, with a tag no tree holds, and
\* without a tag
DictRecords ==
    {[code |-> <<"c">>, title |-> <<"t">>, link |-> <<"u">>, tag |-> g] :
        g \in { <<"A">>, <<"C">>, <<"Z">> }}
    \cup {[code |-> <<"c">>, title |-> <<"t">>, link |-> <<"u">>]}

DictInit ==
    /\ d_pc = "start" /\ d_file \in DictFiles
    /\ d_entries \in SeqsUpTo(DictRecords, MaxDictRecords)
    /\ d_out = <<>>
    /\ NormIdle /\ SyncIdle /\ DataIdle /\ TreeIdle /\ ForestIdle /\ ProcIdle
    /\ MemoIdle /\ EditIdle

\* the nodes of the parsed file (the root alone when there is no file)
DictNodes ==
    LET root == parse_tree_file(d_file)
    IN  IF root.status = "none" THEN <<RootNode>> ELSE root.nodes

TreeNodesToDicts ==
    /\ d_pc = "start"
    /\ LET tree_nodes == build_keyword_tree(d_file)
       IN  d_out' = [i \in 1..Len(tree_nodes) |->
                       tree_node_to_dict(DictNodes, tree_nodes[i], d_entries)]
    /\ d_pc' = "done"
    /\ UNCHANGED <<d_file, d_entries,
                   normVars, syncVars, dataVars, treeVars, forestVars, procVars,
                   memoVars, editVars>>

DictNext == TreeNodesToDicts

SpecDict == DictInit /\ [][DictNext]_vars

\* ---- the output read without the function --------------------------------
\* the dicts of the output, each followed by the dicts under it
RECURSIVE DictWalk(_)
DictWalk(dict) ==
    <<dict>> \o Concat([i \in 1..Len(dict.children) |-> DictWalk(dict.children[i])])

AllDicts == Concat([i \in 1..Len(d_out) |-> DictWalk(d_out[i])])

\* the nodes of the tree in the same order: each followed by its descendants
AllNodes == SubSeq(Preorder(DictNodes, 1), 2, Len(DictNodes))

\* the records whose tag is the keyword of node n or of a descendant of n
TaggedUnder(n) ==
    LET keys == {DictNodes[m].keyword : m \in SubtreeOf(DictNodes, n)}
        hits == SortedKeys({i \in 1..Len(d_entries) :
                              /\ "tag" \in DOMAIN d_entries[i]
                              /\ d_entries[i].tag \in keys})
    IN  [k \in 1..Len(hits) |-> d_entries[hits[k]]]

InSeq(x, seq) == \E i \in 1..Len(seq) : seq[i] = x

\* C23: the procedures of a node's dict are exactly the records tagged with
\* the keyword of the node or of a descendant, in record order; what is listed
\* under a node is listed under each of its ancestors; a record whose tag is
\* no keyword of the tree is listed nowhere.
C23_ProceduresOfNodeAndDescendants ==
    d_pc = "done" =>
        /\ Len(AllDicts) = Len(AllNodes)
        /\ \A j \in 1..Len(AllDicts) :
              /\ AllDicts[j].keyword = DictNodes[AllNodes[j]].keyword
              /\ AllDicts[j].procedures = TaggedUnder(AllNodes[j])
              /\ \A a \in 1..Len(AllDicts) :
                    AllNodes[a] \in AncestorsOf(DictNodes, AllNodes[j]) =>
                        \A i \in 1..Len(AllDicts[j].procedures) :
                            InSeq(AllDicts[j].procedures[i], AllDicts[a].procedures)
        /\ \A i \in 1..Len(d_entries) :
              (\A n \in 2..Len(DictNodes) :
                   EntryGet(d_entries[i], "tag") # DictNodes[n].keyword) =>
                  \A j \in 1..Len(AllDicts) : ~InSeq(d_entries[i], AllDicts[j].procedures)

\* the chain A, B, C with the records tagged C and A: the dict of A lists
\* both in record order, the dicts of B and C list the record tagged C
C23_Witness ==
    /\ d_pc = "done" /\ Len(d_out) = 1 /\ Len(d_entries) = 2
    /\ EntryGet(d_entries[1], "tag") = <<"C">> /\ EntryGet(d_entries[2], "tag") = <<"A">>
    /\ d_out[1].keyword = <<"A">> /\ d_out[1].procedures = d_entries
    /\ Len(d_out[1].children) = 1
    /\ d_out[1].children[1].procedures = <<d_entries[1]>>
    /\ Len(d_out[1].children[1].children) = 1
    /\ d_out[1].children[1].children[1].keyword = <<"C">>
    /\ d_out[1].children[1].children[1].procedures = <<d_entries[1]>>

(***************************************************************************)
(* main.update_procedure and main.add_procedure: each request loads the    *)
(* table file, edits the records and saves the file                        *)
(***************************************************************************)
\* the records with the tag of the first one whose code is `code` replaced
\* (for entry in tagged_database: if entry.get("code") == code: ...; break)
SetFirstTag(rows, code, new_tag) ==
    LET hits == {i \in 1..Len(rows) : EntryGet(rows[i], "code") = code}
    IN  IF hits = {} THEN rows
        ELSE LET first == CHOOSE i \in hits : \A j \in hits : i <= j
             IN  [rows EXCEPT ![first] = [k \in DOMAIN @ \cup {"tag"} |->
                                            IF k = "tag" THEN new_tag ELSE @[k]]]

\* a variant without the break: every record with the code gets the tag
update_procedure_every_match(csv_path, form) ==
    LET code == strip(form.code)
        new_tag == strip(form.tag)
        db == load_tagged_database(csv_path)
    IN  IF ~form.version THEN [csv |-> csv_path, raised |-> FALSE]
        ELSE IF db.raised THEN [csv |-> csv_path, raised |-> TRUE]
        ELSE [csv |-> save_tagged_database(
                         [i \in 1..Len(db.rows) |->
                             IF db.rows[i].code = code
                             THEN [db.rows[i] EXCEPT !.tag = new_tag]
                             ELSE db.rows[i]]),
              raised |-> FALSE]

\* update_procedure: the table file after the request, and whether the
\* request ended in an exception of load_tagged_database
update_procedure(csv_path, form) ==
    LET code == strip(form.code)
        new_tag == strip(form.tag)
        db == load_tagged_database(csv_path)
    IN  IF ~form.version THEN [csv |-> csv_path, raised |-> FALSE]
        ELSE IF db.raised THEN [csv |-> csv_path, raised |-> TRUE]
        ELSE [csv |-> save_tagged_database(SetFirstTag(db.rows, code, new_tag)),
              raised |-> FALSE]

\* a variant without the duplicate check
add_procedure_no_duplicate_check(csv_path, form) ==
    LET code == strip(form.code)
        title == strip(form.title)
        link == strip(form.link)
        tag == strip(form.tag)
        db == load_tagged_database(csv_path)
    IN  IF ~(code # <<>> /\ title # <<>> /\ link # <<>> /\ form.version)
        THEN [csv |-> csv_path, raised |-> FALSE]
        ELSE IF db.raised THEN [csv |-> csv_path, raised |-> TRUE]
        ELSE [csv |-> save_tagged_database(
                         Append(db.rows,
                                [code |-> code, title |-> title, link |-> link,
                                 tag |-> OrElse(tag, <<"R", "E", "S", "T">>)])),
              raised |-> FALSE]

\* add_procedure: the file is saved only when a record was appended
add_procedure(csv_path, form) ==
    LET code == strip(form.code)
        title == strip(form.title)
        link == strip(form.link)
        tag == strip(form.tag)
        db == load_tagged_database(csv_path)
        existing_codes == {EntryGet(db.rows[i], "code") : i \in 1..Len(db.rows)}
    IN  IF ~(code # <<>> /\ title # <<>> /\ link # <<>> /\ form.version)
        THEN [csv |-> csv_path, raised |-> FALSE]
        ELSE IF db.raised THEN [csv |-> csv_path, raised |-> TRUE]
        ELSE IF code \in existing_codes THEN [csv |-> csv_path, raised |-> FALSE]
        ELSE [csv |-> save_tagged_database(
                         Append(db.rows,
                                [code |-> code, title |-> title, link |-> link,
                                 tag |-> OrElse(tag, <<"R", "E", "S", "T">>)])),
              raised |-> FALSE]

\* requests served in one run
MaxEdits == 2

\* the tables at the start: empty, with distinct codes, with an empty code,
\* and with one code twice
EditTables ==
    LET cA == TaggedRecord(<<"c">>, <<"t">>, <<"u">>, <<"A">>)
        c0 == TaggedRecord(<<"c">>, <<"t">>, <<"u">>, <<>>)
        ab == TaggedRecord(<<"a", COMMA, "b">>, <<"t">>, <<"u">>, <<"A">>)
        e == TaggedRecord(<<>>, <<"t">>, <<"u">>, <<"A">>)
    IN  { <<>>, <<cA>>, <<ab>>, <<ab, cA>>, <<e, c0>>, <<cA, c0>>, <<c0, ab, cA>> }

\* table files saved by the program, hand-written ones with padded fields,
\* another header or a short row, and no file
EditFiles ==
    {NoTable}
    \cup {save_tagged_database(rows) : rows \in EditTables}
    \cup {TableOf(csv_row(h) \o csv_rows(rows)) :
             h \in { << <<"code">>, <<"title">>, <<"url">>, <<"tag">> >> },
             rows \in { << << <<SP, "c">>, <<"t", SP>>, <<"u">>, <<SP>> >>,
                           << <<"c">>, <<"t">>, <<"u">>, <<"B">> >> >>,
                        << << <<"c">>, <<"t">> >> >> }}

\* the add form: complete ones, and ones lacking the code, the title, the
\* link or the version
AddForms ==
    {[code |-> c, title |-> <<"t", SP>>, link |-> <<"u">>, tag |-> g, version |-> TRUE] :
        c \in { <<SP, "c", LF>>, <<"a", COMMA, "b">> }, g \in { <<SP>>, <<"B">> }}
    \cup { [code |-> <<SP>>, title |-> <<"t">>, link |-> <<"u">>, tag |-> <<"B">>,
            version |-> TRUE],
           [code |-> <<"d">>, title |-> <<>>, link |-> <<"u">>, tag |-> <<"B">>,
            version |-> TRUE],
           [code |-> <<"d">>, title |-> <<"t">>, link |-> <<>>, tag |-> <<"B">>,
            version |-> TRUE],
           [code |-> <<"d">>, title |-> <<"t">>, link |-> <<"u">>, tag |-> <<"B">>,
            version |-> FALSE] }

UpdateForms ==
    {[code |-> c, tag |-> g, version |-> TRUE] :
        c \in { <<SP, "c">>, <<"d">>, <<>> }, g \in { <<>>, <<QUOTE, "B", SP>> }}
    \cup { [code |-> <<"c">>, tag |-> <<"B">>, version |-> FALSE] }

EditInit ==
    /\ e_csv \in EditFiles
    /\ e_last = [op |-> "none", form |-> <<>>, raised |-> FALSE] /\ e_count = 0
    /\ NormIdle /\ SyncIdle /\ DataIdle /\ TreeIdle /\ ForestIdle /\ ProcIdle
    /\ MemoIdle /\ DictIdle

UpdateProcedure ==
    /\ e_count < MaxEdits
    /\ \E form \in UpdateForms :
          LET r == update_procedure(e_csv, form)
          IN  /\ e_csv' = r.csv
              /\ e_last' = [op |-> "update_procedure", form |-> form, raised |-> r.raised]
    /\ e_count' = e_count + 1
    /\ UNCHANGED <<normVars, syncVars, dataVars, treeVars, forestVars, procVars,
                   memoVars, dictVars>>

AddProcedure ==
    /\ e_count < MaxEdits
    /\ \E form \in AddForms :
          LET r == add_procedure(e_csv, form)
          IN  /\ e_csv' = r.csv
              /\ e_last' = [op |-> "add_procedure", form |-> form, raised |-> r.raised]
    /\ e_count' = e_count + 1
    /\ UNCHANGED <<normVars, syncVars, dataVars, treeVars, forestVars, procVars,
                   memoVars, dictVars>>

EditNext == UpdateProcedure \/ AddProcedure

SpecEdit == EditInit /\ [][EditNext]_vars

\* ---- the table as the next request reads it --------------------------------
TableIn(file) == load_tagged_database(file)

DistinctCodes(rows) ==
    \A i, j \in 1..Len(rows) : rows[i].code = rows[j].code => i = j

\* what add_procedure does to a table that can be read
C24_AddStep ==
    LET old == TableIn(e_csv).rows
        new == TableIn(e_csv')
        f == e_last'.form
        wanted == /\ strip(f.code) # <<>> /\ strip(f.title) # <<>> /\ strip(f.link) # <<>>
                  /\ f.version
                  /\ \A i \in 1..Len(old) : old[i].code # strip(f.code)
    IN  (e_last'.op = "add_procedure" /\ ~TableIn(e_csv).raised) =>
            /\ ~new.raised /\ ~e_last'.raised
            /\ wanted => new.rows = Append(old, TaggedRecord(strip(f.code), strip(f.title),
                                                              strip(f.link),
                                                              IF strip(f.tag) = <<>>
                                                              THEN <<"R", "E", "S", "T">>
                                                              ELSE strip(f.tag)))
            /\ ~wanted => new.rows = old /\ e_csv' = e_csv

\* what update_procedure does to a table that can be read
C24_UpdateStep ==
    LET old == TableIn(e_csv).rows
        new == TableIn(e_csv')
        f == e_last'.form
        hits == {i \in 1..Len(old) : old[i].code = strip(f.code)}
    IN  (e_last'.op = "update_procedure" /\ ~TableIn(e_csv).raised) =>
            /\ ~new.raised /\ ~e_last'.raised
            /\ Len(new.rows) = Len(old)
            /\ \A i \in 1..Len(old) :
                  /\ new.rows[i].code = old[i].code
                  /\ new.rows[i].title = old[i].title
                  /\ new.rows[i].link = old[i].link
                  /\ new.rows[i].tag =
                        IF f.version /\ i \in hits /\ \A j \in hits : i <= j
                        THEN strip(f.tag) ELSE old[i].tag

C24_CodesStayDistinct ==
    (~TableIn(e_csv).raised /\ DistinctCodes(TableIn(e_csv).rows)) =>
        (~TableIn(e_csv').raised /\ DistinctCodes(TableIn(e_csv').rows))

\* C24: add_procedure appends a record only when code, title and link are
\* non-empty and no record has the code, with tag REST when none is given,
\* and otherwise leaves the table as it was; update_procedure changes only
\* the tag of the first record with the code and keeps number and order; a
\* table with pairwise distinct codes keeps distinct codes.
C24_ProcedureEditsKeepTableWellFormed ==
    [][C24_AddStep /\ C24_UpdateStep /\ C24_CodesStayDistinct]_vars

\* a record was added under REST to a table holding another code, then a
\* second add of the same code was refused
C24_Witness ==
    /\ e_count = 2 /\ e_last.op = "add_procedure" /\ ~e_last.raised
    /\ strip(e_last.form.code) = <<"c">> /\ e_last.form.version
    /\ e_last.form.title # <<>> /\ e_last.form.link # <<>>
    /\ e_last.form.tag = <<"B">>
    /\ ~TableIn(e_csv).raised
    /\ TableIn(e_csv).rows =
          << TaggedRecord(<<"a", COMMA, "b">>, <<"t">>, <<"u">>, <<"A">>),
             TaggedRecord(<<"c">>, <<"t">>, <<"u">>, <<"R", "E", "S", "T">>) >>

(***************************************************************************)
(* The annotation file (database.save_memos / load_memos): csv.DictWriter  *)
(* and csv.DictReader on a file opened with utf-8-sig and newline="".      *)
(* In this section the text fields of an annotation record are character   *)
(* sequences, <<>> being the empty string, since the file is written and   *)
(* read character by character.                                            *)
(***************************************************************************)
DecDigits == <<"0", "1", "2", "3", "4", "5", "6", "7", "8", "9">>

\* str(n) as the csv writer renders an int field
RECURSIVE str_int(_)
str_int(n) ==
    IF n < 10 THEN <<DecDigits[n + 1]>>
    ELSE str_int(n \div 10) \o <<DecDigits[(n % 10) + 1]>>

IsDecimal(s) ==
    /\ s # <<>>
    /\ \A i \in 1..Len(s) : \E d \in 1..10 : DecDigits[d] = s[i]

\* int(s) on a text of decimal digits
RECURSIVE int_text(_)
int_text(s) ==
    IF s = <<>> THEN 0
    ELSE 10 * int_text(SubSeq(s, 1, Len(s) - 1))
         + (CHOOSE d \in 0..9 : DecDigits[d + 1] = s[Len(s)])

\* MEMO_COLUMNS, each column name taken as one symbol
MEMO_COLUMNS ==
    << <<"ID">>, <<"Command ID">>, <<"Command Text">>, <<"Memo text">>, <<"onenote link">> >>

\* save_memos down to the characters of the file
save_memos_csv(memo_map) ==
    LET rows == save_memos(memo_map)
    IN  TableOf(<<BOM>>
                \o csv_row(MEMO_COLUMNS)
                \o csv_rows([i \in 1..Len(rows) |->
                               << str_int(rows[i].ID), str_int(rows[i].CommandID),
                                  rows[i].CommandText, rows[i].MemoText,
                                  rows[i].OnenoteLink >>]))

\* a field as CommandMemo receives it: the text, or None for a short row
FieldValue(v) == IF v.none THEN NoneText ELSE v.s

\* load_memos: {} for a missing file; int() raises on an ID or Command ID
\* that is None or not a number (the texts explored hold no sign, no blank);
\* rows whose ID is 0 are skipped; CommandMemo is built from the five
\* columns, description keeping its default; each list is sorted by position
load_memos(csv_path) ==
    IF ~csv_path.exists THEN [raised |-> FALSE, memos |-> EmptyMap]
    ELSE LET rows == DictReader(csv_reader(DecodeSig(csv_path.text)))
             idOf(r) == RowGet(rows[r], <<"ID">>, Str(<<"0">>))
             orderOf(r) == RowGet(rows[r], <<"Command ID">>, Str(<<"0">>))
             isInt(v) == ~v.none /\ IsDecimal(v.s)
             bad == \E r \in 1..Len(rows) :
                       \/ ~isInt(idOf(r))
                       \/ int_text(idOf(r).s) # 0 /\ ~isInt(orderOf(r))
             kept == SelectSeq([r \in 1..Len(rows) |-> r],
                               LAMBDA r : int_text(idOf(r).s) # 0)
             memo(r) ==
                 CommandMemo(int_text(idOf(r).s), int_text(orderOf(r).s),
                             FieldValue(RowGet(rows[r], <<"Command Text">>, Str(<<>>))),
                             <<>>,
                             FieldValue(RowGet(rows[r], <<"Memo text">>, Str(<<>>))),
                             FieldValue(RowGet(rows[r], <<"onenote link">>, Str(<<>>))))
             all == [i \in 1..Len(kept) |-> memo(kept[i])]
             ids == {all[i].action_id : i \in 1..Len(all)}
         IN  IF bad THEN [raised |-> TRUE, memos |-> EmptyMap]
             ELSE [raised |-> FALSE,
                   memos |-> [k \in ids |->
                                SortedByOrder(SelectSeq(all, LAMBDA m : m.action_id = k))]]

(***************************************************************************)
(* An annotation index saved and loaded back                               *)
(***************************************************************************)
\* most annotations of one bundle
MaxMemos == 2

\* the command at each position, as normalize_commands yields them
MemoCommands == << <<"a">>, <<"a", COMMA, SP, "b">>, <<"b">> >>

\* (description, memo_text, onenote_link) as update_memos stores them
MemoNotes ==
    { << <<>>, <<>>, <<>> >>,
      << <<"d">>, <<>>, <<>> >>,
      << <<>>, <<"m", LF, QUOTE>>, <<"l">> >>,
      << <<"d">>, <<"m">>, <<"l">> >> }

\* the annotation lists sync_memos builds for bundle k: positions 1..n
MemoLists(k) ==
    UNION { { [i \in 1..n |->
                 CommandMemo(k, i, MemoCommands[i], notes[i][1], notes[i][2], notes[i][3])] :
              notes \in [1..n -> MemoNotes] } : n \in 0..MaxMemos }

MemoIndexes ==
    UNION { { [k \in K |-> IF k = 1 THEN l1 ELSE l2] :
              l1 \in MemoLists(1), l2 \in MemoLists(2) } : K \in SUBSET {1, 2} }

MemoInit ==
    /\ m_pc = "start" /\ m_memos \in MemoIndexes
    /\ m_file = NoTable /\ m_loaded = [raised |-> FALSE, memos |-> EmptyMap]
    /\ NormIdle /\ SyncIdle /\ DataIdle /\ TreeIdle /\ ForestIdle /\ ProcIdle
    /\ DictIdle /\ EditIdle

SaveMemos ==
    /\ m_pc = "start"
    /\ m_file' = save_memos_csv(m_memos)
    /\ m_pc' = "saved"
    /\ UNCHANGED <<m_memos, m_loaded,
                   normVars, syncVars, dataVars, treeVars, forestVars, procVars,
                   dictVars, editVars>>

LoadMemos ==
    /\ m_pc \in {"start", "saved"}
    /\ m_loaded' = load_memos(m_file)
    /\ m_pc' = IF m_pc = "saved" THEN "loaded" ELSE "loaded_nothing"
    /\ UNCHANGED <<m_memos, m_file,
                   normVars, syncVars, dataVars, treeVars, forestVars, procVars,
                   dictVars, editVars>>

MemoNext == SaveMemos \/ LoadMemos

SpecMemo == MemoInit /\ [][MemoNext]_vars

\* C21: after save_memos and load_memos every bundle with at least one
\* annotation has the same annotation records, in ascending position order,
\* with every field preserved, description included.
C21_AnnotationsSurviveSaveAndLoad ==
    m_pc = "loaded" =>
        /\ ~m_loaded.raised
        /\ \A k \in DOMAIN m_memos :
              m_memos[k] # <<>> =>
                  /\ k \in DOMAIN m_loaded.memos
                  /\ m_loaded.memos[k] = m_memos[k]

\* what does survive: every field but description
WithoutDescription(memos) ==
    [i \in 1..Len(memos) |-> [memos[i] EXCEPT !.description = <<>>]]

C21_AllButDescriptionSurvives ==
    m_pc = "loaded" =>
        /\ ~m_loaded.raised
        /\ DOMAIN m_loaded.memos = {k \in DOMAIN m_memos : m_memos[k] # <<>>}
        /\ \A k \in DOMAIN m_loaded.memos :
              m_loaded.memos[k] = WithoutDescription(m_memos[k])

=============================================================================
